---- MODULE Spec2Model ----
(***************************************************************************)
(* A model of the pure core of better-godot-mcp and of the handlers that   *)
(* put it to work: the path sandbox (safeResolve), the scene text patches  *)
(* (removeNodeFromContent, renameNodeInContent, setNodePropertyInContent), *)
(* the value codec (parseGodotValue / toGodotValue) and the script and     *)
(* scene file handlers.                                                    *)
(*                                                                         *)
(* Text is a sequence of characters.  A character is a one-character       *)
(* string, except that a keyword the code only ever tests as a whole       *)
(* ("[node", "name=", "Vector2(") is written as one character: no other    *)
(* character of the alphabets used here is a part of a keyword, so every   *)
(* prefix, suffix and substring test gives the answer it gives on the      *)
(* spelled-out text.                                                       *)
(***************************************************************************)
EXTENDS Integers, Sequences, FiniteSets, TLC

VARIABLES
    pc,         \* position of the call under way: "call", "done", ...
    basePath,   \* safeResolve: the trusted root handed in
    userPath,   \* safeResolve: the untrusted path handed in
    impl,       \* safeResolve: which of the repository's variants runs
    outcome,    \* safeResolve: what the call did (threw, or returned a path)
    disk,       \* the file system: absolute path -> content of the file there
    lastCall,   \* the tool call that ran last, with the disk accesses it made
    content,    \* scene text handed to a text patch
    patch,      \* the text patch applied and its arguments
    patched,    \* the text the patch returned
    origin,     \* value codec: the value or text the round trip started from
    datum,      \* value codec: what the conversions have made of it so far
    steps       \* value codec: number of conversions applied

pathVars == <<basePath, userPath, impl, outcome>>
fsVars == <<disk, lastCall>>
sceneVars == <<content, patch, patched>>
codecVars == <<origin, datum, steps>>
vars == <<pc, pathVars, fsVars, sceneVars, codecVars>>

\* The value of a variable the specification at hand does not use.
Unused == "unused"
PathIdle == basePath = Unused /\ userPath = Unused /\ impl = Unused /\ outcome = Unused
FsIdle == disk = Unused /\ lastCall = Unused
SceneIdle == content = Unused /\ patch = Unused /\ patched = Unused
CodecIdle == origin = Unused /\ datum = Unused /\ steps = Unused

(***************************************************************************)
(* The String methods the code uses, on sequences of characters.           *)
(***************************************************************************)
startsWith(s, p) == Len(s) >= Len(p) /\ SubSeq(s, 1, Len(p)) = p

endsWith(s, p) == Len(s) >= Len(p) /\ SubSeq(s, Len(s) - Len(p) + 1, Len(s)) = p

includes(s, p) == \E i \in 0..(Len(s) - Len(p)) : SubSeq(s, i + 1, i + Len(p)) = p

slice(s, from) == SubSeq(s, from + 1, Len(s))

RECURSIVE split(_, _)
split(s, c) ==
    IF \A i \in 1..Len(s) : s[i] # c
    THEN <<s>>
    ELSE LET i == CHOOSE k \in 1..Len(s) : s[k] = c /\ \A j \in 1..(k - 1) : s[j] # c
         IN  <<SubSeq(s, 1, i - 1)>> \o split(SubSeq(s, i + 1, Len(s)), c)

RECURSIVE join(_, _)
join(parts, c) ==
    IF Len(parts) = 0 THEN <<>>
    ELSE IF Len(parts) = 1 THEN parts[1]
    ELSE parts[1] \o c \o join(Tail(parts), c)

SeqsUpTo(S, n) == UNION { [1..k -> S] : k \in 0..n }

(***************************************************************************)
(* node:path on POSIX: resolve, relative, isAbsolute, sep.                 *)
(***************************************************************************)
sep == <<"/">>

\* process.cwd(): where a relative base path is resolved from.
Cwd == <<"/", "p">>

isAbsolute(p) == Len(p) > 0 /\ p[1] = "/"

\* normalizeString: "." and empty segments are dropped, ".." removes the
\* segment before it and is itself dropped at the root of an absolute path.
RECURSIVE normalizeSegments(_, _)
normalizeSegments(segs, acc) ==
    IF Len(segs) = 0 THEN acc
    ELSE LET s == Head(segs)
         IN  IF s = <<>> \/ s = <<".">> THEN normalizeSegments(Tail(segs), acc)
             ELSE IF s = <<".", ".">>
             THEN normalizeSegments(Tail(segs),
                      IF Len(acc) = 0 THEN acc ELSE SubSeq(acc, 1, Len(acc) - 1))
             ELSE normalizeSegments(Tail(segs), Append(acc, s))

\* resolve(...args): right to left, each argument is put in front until the
\* path is absolute; the working directory is the last resort.
RECURSIVE resolveJoin(_, _, _)
resolveJoin(args, i, acc) ==
    IF i = 0 THEN Cwd \o sep \o acc
    ELSE IF Len(args[i]) = 0 THEN resolveJoin(args, i - 1, acc)
    ELSE IF isAbsolute(args[i]) THEN args[i] \o sep \o acc
    ELSE resolveJoin(args, i - 1, args[i] \o sep \o acc)

resolve(args) ==
    sep \o join(normalizeSegments(split(resolveJoin(args, Len(args), <<>>), "/"), <<>>), sep)

\* The segments of a resolved path ("/" has none).
segmentsOf(p) == normalizeSegments(split(p, "/"), <<>>)

RECURSIVE commonPrefixLen(_, _)
commonPrefixLen(a, b) ==
    IF Len(a) = 0 \/ Len(b) = 0 \/ Head(a) # Head(b) THEN 0
    ELSE 1 + commonPrefixLen(Tail(a), Tail(b))

\* relative(from, to): one ".." for each segment of from below the common
\* ancestor, then the segments of to below it.
relative(from, to) ==
    LET f == segmentsOf(resolve(<<from>>))
        t == segmentsOf(resolve(<<to>>))
        k == commonPrefixLen(f, t)
    IN  join([i \in 1..(Len(f) - k) |-> <<".", ".">>] \o SubSeq(t, k + 1, Len(t)), sep)

(***************************************************************************)
(* safeResolve, in the variants the repository holds.                      *)
(***************************************************************************)
Returned(p) == [threw |-> FALSE, error |-> "", code |-> "", path |-> p]
GodotMCPError(c) == [threw |-> TRUE, error |-> "GodotMCPError", code |-> c, path |-> <<>>]

\* A prefix test on the bare strings, with no separator put behind the base.
safeResolveBarePrefix(base, relativePath) ==
    LET resolvedBase == resolve(<<base>>)
        resolvedPath == resolve(<<resolvedBase, relativePath>>)
    IN  IF resolvedPath # resolvedBase /\ ~startsWith(resolvedPath, resolvedBase)
        THEN GodotMCPError("INVALID_ARGS")
        ELSE Returned(resolvedPath)

\* A prefix test that forgets the root itself: only paths below it pass.
safeResolveRootRejected(base, relativePath) ==
    LET resolvedBase == resolve(<<base>>)
        resolvedPath == resolve(<<resolvedBase, relativePath>>)
        baseWithSep == IF endsWith(resolvedBase, sep) THEN resolvedBase ELSE resolvedBase \o sep
    IN  IF ~startsWith(resolvedPath, baseWithSep)
        THEN GodotMCPError("INVALID_ARGS")
        ELSE Returned(resolvedPath)

\* paths.ts, first variant: both sides get a trailing separator.
safeResolve(base, relativePath) ==
    LET resolvedBase == resolve(<<base>>)
        resolvedPath == resolve(<<resolvedBase, relativePath>>)
        baseWithSep == IF endsWith(resolvedBase, sep) THEN resolvedBase ELSE resolvedBase \o sep
        pathWithSep == IF endsWith(resolvedPath, sep) THEN resolvedPath ELSE resolvedPath \o sep
    IN  IF resolvedPath # resolvedBase /\ ~startsWith(pathWithSep, baseWithSep)
        THEN GodotMCPError("INVALID_ARGS")
        ELSE Returned(resolvedPath)

\* A sandbox that hands back the root for a path that escapes it.
safeResolveClamping(base, relativePath) ==
    LET resolvedBase == resolve(<<base>>)
        resolvedPath == resolve(<<resolvedBase, relativePath>>)
        baseWithSep == IF endsWith(resolvedBase, sep) THEN resolvedBase ELSE resolvedBase \o sep
    IN  IF resolvedPath # resolvedBase /\ ~startsWith(resolvedPath, baseWithSep)
        THEN Returned(resolvedBase)
        ELSE Returned(resolvedPath)

\* paths.ts, second variant: only the base gets the separator.
safeResolveV2(base, relativePath) ==
    LET resolvedBase == resolve(<<base>>)
        resolvedPath == resolve(<<resolvedBase, relativePath>>)
        baseWithSep == IF endsWith(resolvedBase, sep) THEN resolvedBase ELSE resolvedBase \o sep
    IN  IF resolvedPath # resolvedBase /\ ~startsWith(resolvedPath, baseWithSep)
        THEN GodotMCPError("INVALID_ARGS")
        ELSE Returned(resolvedPath)

\* The variant that tests relative() for ".." or "../" (process.platform is
\* not win32 here, so the isAbsolute disjunct is off).
safeResolveRelative(base, relativePath) ==
    LET absoluteBase == resolve(<<base>>)
        resolvedPath == resolve(<<absoluteBase, relativePath>>)
        rel == relative(absoluteBase, resolvedPath)
        isOutside == rel = <<".", ".">> \/ startsWith(rel, <<".", ".">> \o sep)
    IN  IF isOutside THEN GodotMCPError("INVALID_ARGS") ELSE Returned(resolvedPath)

\* The variant that tests relative() for a bare ".." prefix.
safeResolveDotDotPrefix(base, relativePath) ==
    LET resolvedBase == resolve(<<base>>)
        resolvedPath == resolve(<<resolvedBase, relativePath>>)
        rel == relative(resolvedBase, resolvedPath)
        isSafe == ~startsWith(rel, <<".", ".">>) /\ ~isAbsolute(rel)
    IN  IF ~isSafe THEN GodotMCPError("INVALID_ARGS") ELSE Returned(resolvedPath)

Impls == {"paths.ts#1", "paths.ts#2", "relative", "dotdot-prefix"}

safeResolveOf(i, base, relativePath) ==
    CASE i = "paths.ts#1" -> safeResolve(base, relativePath)
      [] i = "paths.ts#2" -> safeResolveV2(base, relativePath)
      [] i = "relative" -> safeResolveRelative(base, relativePath)
      [] i = "dotdot-prefix" -> safeResolveDotDotPrefix(base, relativePath)

(***************************************************************************)
(* SpecPath: one call of safeResolve on every base and every user path of  *)
(* at most MaxPathLen characters.                                          *)
(***************************************************************************)
MaxPathLen == 6

PathChars == {"/", ".", "p"}

\* "/p", "/p/p", "/", "/p/" and the relative "p" (which is Cwd/p).
BasePaths == { <<"/", "p">>, <<"/", "p", "/", "p">>, <<"/">>, <<"/", "p", "/">>, <<"p">> }

Pending == [threw |-> FALSE, error |-> "", code |-> "", path |-> <<"?">>]

InitPath ==
    /\ pc = "call"
    /\ basePath \in BasePaths
    /\ userPath \in SeqsUpTo(PathChars, MaxPathLen)
    /\ impl \in Impls
    /\ outcome = Pending
    /\ FsIdle /\ SceneIdle /\ CodecIdle

SafeResolveCall ==
    /\ pc = "call"
    /\ outcome' = safeResolveOf(impl, basePath, userPath)
    /\ pc' = "done"
    /\ UNCHANGED <<basePath, userPath, impl, fsVars, sceneVars, codecVars>>

NextPath == SafeResolveCall

SpecPath == InitPath /\ [][NextPath]_vars

(***************************************************************************)
(* What the sandbox claims speak of, said without the code's own tests:    *)
(* containment by path segments.                                           *)
(***************************************************************************)
\* The root as the sandbox sees it, and where the user path points.
ResolvedRoot == resolve(<<basePath>>)
Target == resolve(<<ResolvedRoot, userPath>>)

\* p is r itself or lies below it: r's segments are the first of p's.
IsWithin(r, p) ==
    LET rs == segmentsOf(r)
        ps == segmentsOf(p)
    IN  Len(rs) <= Len(ps) /\ SubSeq(ps, 1, Len(rs)) = rs

\* p lies outside r although r is a prefix of p as a string ("/p", "/pp/x").
SharesOnlyStringPrefix(r, p) == startsWith(p, r) /\ ~IsWithin(r, p)

\* path.normalize of a user path: "." and empty segments go, "seg/.." goes,
\* a leading ".." of a relative path stays, a trailing "/" stays.
RECURSIVE normalizeKeepingAbove(_, _)
normalizeKeepingAbove(segs, acc) ==
    IF Len(segs) = 0 THEN acc
    ELSE LET s == Head(segs)
         IN  IF s = <<>> \/ s = <<".">> THEN normalizeKeepingAbove(Tail(segs), acc)
             ELSE IF s = <<".", ".">> /\ Len(acc) > 0 /\ acc[Len(acc)] # <<".", ".">>
             THEN normalizeKeepingAbove(Tail(segs), SubSeq(acc, 1, Len(acc) - 1))
             ELSE normalizeKeepingAbove(Tail(segs), Append(acc, s))

normalize(p) ==
    IF Len(p) = 0 THEN <<".">>
    ELSE LET body == IF isAbsolute(p)
                     THEN join(normalizeSegments(split(p, "/"), <<>>), sep)
                     ELSE join(normalizeKeepingAbove(split(p, "/"), <<>>), sep)
             trail == IF endsWith(p, sep) /\ Len(body) > 0 THEN sep ELSE <<>>
         IN  IF isAbsolute(p) THEN sep \o body \o trail
             ELSE IF Len(body) = 0 THEN (IF endsWith(p, sep) THEN <<".", "/">> ELSE <<".">>)
             ELSE body \o trail

HasDotDotSegment(p) == \E i \in 1..Len(split(p, "/")) : split(p, "/")[i] = <<".", ".">>

\* C1: safeResolve throws or returns a path that is the resolved root or has
\* it as a path-segment ancestor; a target that shares only a string prefix
\* with the root is rejected.
C1_ResultWithinRoot ==
    pc = "done" =>
        /\ ~outcome.threw => IsWithin(ResolvedRoot, outcome.path)
        /\ SharesOnlyStringPrefix(ResolvedRoot, Target) => outcome.threw

\* C1's case: the first variant of paths.ts has rejected a sibling whose name
\* starts with the root's name.
C1_Witness ==
    /\ pc = "done"
    /\ impl = "paths.ts#1"
    /\ basePath = <<"/", "p">>
    /\ Target = <<"/", "p", "p", "/", "p">>
    /\ outcome.threw

\* C3: safeResolve never clamps: what it returns is the normalised resolution
\* of the user path (of the user path alone when that is absolute), and a
\* resolution outside the root always throws a GodotMCPError.
C3_NeverClamps ==
    pc = "done" =>
        /\ ~outcome.threw => outcome.path = Target
        /\ ~outcome.threw /\ isAbsolute(userPath) => outcome.path = resolve(<<userPath>>)
        /\ ~IsWithin(ResolvedRoot, Target) => outcome.threw /\ outcome.error = "GodotMCPError"

\* C3's case: the second variant of paths.ts has thrown on a path that
\* climbs out of the root.
C3_Witness ==
    /\ pc = "done"
    /\ impl = "paths.ts#2"
    /\ userPath = <<".", ".", "/", "p", "p">>
    /\ ~IsWithin(ResolvedRoot, Target)
    /\ outcome.threw

\* C4: every path whose resolved form is the root or lies below it is
\* accepted, a child named "..p" included.
C4_AcceptsEveryInsidePath ==
    pc = "done" /\ IsWithin(ResolvedRoot, Target) => ~outcome.threw /\ outcome.path = Target

\* C5 as stated: "" and "." return the root, ".." fails, and a path with
\* ".." segments that stays under the root gives what its normal form gives.
C5_EdgePathsAsStated ==
    pc = "done" =>
        /\ userPath \in {<<>>, <<".">>} => outcome = Returned(ResolvedRoot)
        /\ userPath = <<".", ".">> => outcome.threw
        /\ HasDotDotSegment(userPath) /\ IsWithin(ResolvedRoot, Target)
               => outcome = safeResolveOf(impl, basePath, normalize(userPath))

\* C5, amended: the same, ".." failing for every root but the file system's
\* own root, whose parent is itself.
C5_EdgePaths ==
    pc = "done" =>
        /\ userPath \in {<<>>, <<".">>} => outcome = Returned(ResolvedRoot)
        /\ userPath = <<".", ".">> /\ ResolvedRoot # sep => outcome.threw
        /\ userPath = <<".", ".">> /\ ResolvedRoot = sep => outcome = Returned(sep)
        /\ HasDotDotSegment(userPath) /\ IsWithin(ResolvedRoot, Target)
               => outcome = safeResolveOf(impl, basePath, normalize(userPath))

\* C5's case: "p/../p" has been resolved under "/p" and came out as "p" does.
C5_Witness ==
    /\ pc = "done"
    /\ basePath = <<"/", "p">>
    /\ userPath = <<"p", "/", ".", ".", "/", "p">>
    /\ outcome = Returned(<<"/", "p", "/", "p">>)

(***************************************************************************)
(* The script and scene file handlers (handleScripts, handleScenes) over a *)
(* file system.  Every directory the user paths below name exists, so      *)
(* mkdirSync(dirname(fullPath), {recursive: true}) changes nothing.        *)
(***************************************************************************)
\* config.projectPath: the project root the calls run under.
ProjectPath == <<"/", "p">>

existsSync(d, p) == p \in DOMAIN d

readFileSync(d, p) == d[p]

writeFileSync(d, p, c) == [q \in DOMAIN d \cup {p} |-> IF q = p THEN c ELSE d[q]]

unlinkSync(d, p) == [q \in DOMAIN d \ {p} |-> d[q]]

copyFileSync(d, src, dst) == writeFileSync(d, dst, d[src])

\* What a handler call did: the disk it leaves, whether it threw, and the
\* files it read, wrote, copied or deleted.
Threw(d, c) == [disk |-> d, threw |-> TRUE, code |-> c, accessed |-> {}]
Done(d, acc) == [disk |-> d, threw |-> FALSE, code |-> "", accessed |-> acc]

\* projectPath ? resolve(projectPath, path) : resolve(path)
fullPathOf(projectPath, path) ==
    IF Len(projectPath) > 0 THEN resolve(<<projectPath, path>>) ELSE resolve(<<path>>)

\* getTemplate(extendsType), as one opaque text.
getTemplate == "template"

handleScripts(action, args, d) ==
    LET scriptPath == args.script_path
        fullPath == fullPathOf(ProjectPath, scriptPath)
    IN  CASE action = "create" ->
                IF Len(scriptPath) = 0 THEN Threw(d, "INVALID_ARGS")
                ELSE IF existsSync(d, fullPath) THEN Threw(d, "SCRIPT_ERROR")
                ELSE Done(writeFileSync(d, fullPath,
                              IF args.content # "" THEN args.content ELSE getTemplate),
                          {[op |-> "write", path |-> fullPath]})
          [] action = "read" ->
                IF Len(scriptPath) = 0 THEN Threw(d, "INVALID_ARGS")
                ELSE IF ~existsSync(d, fullPath) THEN Threw(d, "SCRIPT_ERROR")
                ELSE Done(d, {[op |-> "read", path |-> fullPath]})
          [] action = "write" ->
                IF Len(scriptPath) = 0 THEN Threw(d, "INVALID_ARGS")
                ELSE Done(writeFileSync(d, fullPath, args.content),
                          {[op |-> "write", path |-> fullPath]})
          [] action = "delete" ->
                IF Len(scriptPath) = 0 THEN Threw(d, "INVALID_ARGS")
                ELSE IF ~existsSync(d, fullPath) THEN Threw(d, "SCRIPT_ERROR")
                ELSE Done(unlinkSync(d, fullPath), {[op |-> "unlink", path |-> fullPath]})
          [] OTHER -> Threw(d, "INVALID_ACTION")

handleScenes(action, args, d) ==
    LET scenePath == args.scene_path
        fullPath == fullPathOf(ProjectPath, scenePath)
    IN  CASE action = "info" ->
                IF Len(scenePath) = 0 THEN Threw(d, "INVALID_ARGS")
                ELSE IF ~existsSync(d, fullPath) THEN Threw(d, "SCENE_ERROR")
                ELSE Done(d, {[op |-> "read", path |-> fullPath]})
          [] action = "delete" ->
                IF Len(scenePath) = 0 THEN Threw(d, "INVALID_ARGS")
                ELSE IF ~existsSync(d, fullPath) THEN Threw(d, "SCENE_ERROR")
                ELSE Done(unlinkSync(d, fullPath), {[op |-> "unlink", path |-> fullPath]})
          [] action = "duplicate" ->
                LET srcFull == fullPath
                    dstFull == fullPathOf(ProjectPath, args.new_path)
                IN  IF Len(scenePath) = 0 \/ Len(args.new_path) = 0 THEN Threw(d, "INVALID_ARGS")
                    ELSE IF ~existsSync(d, srcFull) THEN Threw(d, "SCENE_ERROR")
                    ELSE IF existsSync(d, dstFull) THEN Threw(d, "SCENE_ERROR")
                    ELSE Done(copyFileSync(d, srcFull, dstFull),
                              {[op |-> "read", path |-> srcFull],
                               [op |-> "write", path |-> dstFull]})
          [] OTHER -> Threw(d, "INVALID_ACTION")

(***************************************************************************)
(* SpecFiles: any sequence of script and scene tool calls on one project.  *)
(***************************************************************************)
\* "p" and "pp" (in the project), "../p/p" (in it, by way of its parent),
\* "../pp" and "/pp" (a sibling of the project), "" (argument missing).
UserPaths ==
    { <<"p">>, <<"p", "p">>, <<".", ".", "/", "p", "/", "p">>,
      <<".", ".", "/", "p", "p">>, <<"/", "p", "p">>, <<>> }

\* The project holds /p/p; /pp lies beside the project.
InitialDisk == (<<"/", "p", "/", "p">> :> "own") @@ (<<"/", "p", "p">> :> "secret")

InitFiles ==
    /\ pc = "ready"
    /\ disk = InitialDisk
    /\ lastCall = [tool |-> "none", action |-> "none", paths |-> <<>>,
                   threw |-> FALSE, code |-> "", accessed |-> {}]
    /\ PathIdle /\ SceneIdle /\ CodecIdle

\* The record a call leaves in lastCall.
called(tool, action, paths, r) ==
    [tool |-> tool, action |-> action, paths |-> paths,
     threw |-> r.threw, code |-> r.code, accessed |-> r.accessed]

ScriptsCreate ==
    \E path \in UserPaths, c \in {"", "new"} :
        LET r == handleScripts("create", [script_path |-> path, content |-> c], disk)
        IN  /\ disk' = r.disk
            /\ lastCall' = called("scripts", "create", <<path>>, r)
            /\ UNCHANGED <<pc, pathVars, sceneVars, codecVars>>

ScriptsRead ==
    \E path \in UserPaths :
        LET r == handleScripts("read", [script_path |-> path, content |-> ""], disk)
        IN  /\ disk' = r.disk
            /\ lastCall' = called("scripts", "read", <<path>>, r)
            /\ UNCHANGED <<pc, pathVars, sceneVars, codecVars>>

ScriptsWrite ==
    \E path \in UserPaths :
        LET r == handleScripts("write", [script_path |-> path, content |-> "new"], disk)
        IN  /\ disk' = r.disk
            /\ lastCall' = called("scripts", "write", <<path>>, r)
            /\ UNCHANGED <<pc, pathVars, sceneVars, codecVars>>

ScriptsDelete ==
    \E path \in UserPaths :
        LET r == handleScripts("delete", [script_path |-> path, content |-> ""], disk)
        IN  /\ disk' = r.disk
            /\ lastCall' = called("scripts", "delete", <<path>>, r)
            /\ UNCHANGED <<pc, pathVars, sceneVars, codecVars>>

ScenesInfo ==
    \E path \in UserPaths :
        LET r == handleScenes("info", [scene_path |-> path, new_path |-> <<>>], disk)
        IN  /\ disk' = r.disk
            /\ lastCall' = called("scenes", "info", <<path>>, r)
            /\ UNCHANGED <<pc, pathVars, sceneVars, codecVars>>

ScenesDelete ==
    \E path \in UserPaths :
        LET r == handleScenes("delete", [scene_path |-> path, new_path |-> <<>>], disk)
        IN  /\ disk' = r.disk
            /\ lastCall' = called("scenes", "delete", <<path>>, r)
            /\ UNCHANGED <<pc, pathVars, sceneVars, codecVars>>

ScenesDuplicate ==
    \E path \in UserPaths, newPath \in UserPaths :
        LET r == handleScenes("duplicate", [scene_path |-> path, new_path |-> newPath], disk)
        IN  /\ disk' = r.disk
            /\ lastCall' = called("scenes", "duplicate", <<path, newPath>>, r)
            /\ UNCHANGED <<pc, pathVars, sceneVars, codecVars>>

NextFiles ==
    \/ ScriptsCreate
    \/ ScriptsRead
    \/ ScriptsWrite
    \/ ScriptsDelete
    \/ ScenesInfo
    \/ ScenesDelete
    \/ ScenesDuplicate

SpecFiles == InitFiles /\ [][NextFiles]_vars

\* C2: no tool call reads, writes, copies or deletes a file outside the
\* project root, and a call whose path escapes the root fails before it
\* touches the disk.
C2_NoAccessOutsideRoot ==
    /\ \A a \in lastCall.accessed : IsWithin(resolve(<<ProjectPath>>), a.path)
    /\ \A i \in 1..Len(lastCall.paths) :
            ~IsWithin(resolve(<<ProjectPath>>), fullPathOf(ProjectPath, lastCall.paths[i]))
                => lastCall.threw

(***************************************************************************)
(* The scene text patches of scene-parser.ts.                              *)
(***************************************************************************)
Q == "\""
NL == "\n"

Whitespace == {" ", "\t", "\r", NL}

RECURSIVE trimStart(_)
trimStart(s) == IF Len(s) > 0 /\ s[1] \in Whitespace THEN trimStart(Tail(s)) ELSE s

RECURSIVE trimEnd(_)
trimEnd(s) ==
    IF Len(s) > 0 /\ s[Len(s)] \in Whitespace THEN trimEnd(SubSeq(s, 1, Len(s) - 1)) ELSE s

trim(s) == trimEnd(trimStart(s))

\* `key="value"`, as the patches spell the attribute they look for.
attr(key, value) == <<key, Q>> \o value \o <<Q>>

\* line.match(/key="([^"]*)"/): the first place where key=" is followed, with
\* no quote in between, by a closing quote; <<FALSE>> when there is none.
matchAttr(line, key) ==
    LET starts == { i \in 1..Len(line) :
                        /\ i + 1 <= Len(line)
                        /\ line[i] = key /\ line[i + 1] = Q
                        /\ \E j \in (i + 2)..Len(line) : line[j] = Q }
    IN  IF starts = {} THEN <<FALSE>>
        ELSE LET i == CHOOSE k \in starts : \A m \in starts : k <= m
                 j == CHOOSE k \in (i + 2)..Len(line) :
                          line[k] = Q /\ \A m \in (i + 2)..(k - 1) : line[m] # Q
             IN  <<TRUE, SubSeq(line, i + 2, j - 1)>>

\* The for loop of removeNodeFromContent: lines from the i-th on.
RECURSIVE removeNodeLoop(_, _, _, _, _)
removeNodeLoop(lines, i, nodeName, skipping, result) ==
    IF i > Len(lines) THEN result
    ELSE LET trimmed == trim(lines[i])
         IN  IF startsWith(trimmed, <<"[", "node">>) /\ includes(trimmed, attr("name=", nodeName))
             THEN removeNodeLoop(lines, i + 1, nodeName, TRUE, result)
             ELSE LET stillSkipping == skipping /\ ~startsWith(trimmed, <<"[">>)
                  IN  removeNodeLoop(lines, i + 1, nodeName, stillSkipping,
                          IF stillSkipping THEN result ELSE Append(result, lines[i]))

\* The filter of removeNodeFromContent: connections that name the node go.
keepsLine(line, nodeName) ==
    LET trimmed == trim(line)
    IN  IF startsWith(trimmed, <<"[", "connection">>)
        THEN ~includes(trimmed, attr("from=", nodeName)) /\ ~includes(trimmed, attr("to=", nodeName))
        ELSE TRUE

\* A removeNodeFromContent that leaves the connections alone.
removeNodeKeepingConnections(text, nodeName) ==
    join(removeNodeLoop(split(text, NL), 1, nodeName, FALSE, <<>>), <<NL>>)

\* A removeNodeFromContent that also drops the declarations of the children.
removeNodeAndChildren(text, nodeName) ==
    join(SelectSeq(removeNodeLoop(split(text, NL), 1, nodeName, FALSE, <<>>),
                   LAMBDA line : keepsLine(line, nodeName)
                                   /\ ~includes(line, attr("parent=", nodeName))),
         <<NL>>)

removeNodeFromContent(text, nodeName) ==
    join(SelectSeq(removeNodeLoop(split(text, NL), 1, nodeName, FALSE, <<>>),
                   LAMBDA line : keepsLine(line, nodeName)),
         <<NL>>)

\* text.replace(new RegExp(pat, 'g'), rep) for a pattern with no operators.
RECURSIVE replaceAll(_, _, _)
replaceAll(s, pat, rep) ==
    IF Len(s) < Len(pat) THEN s
    ELSE IF startsWith(s, pat) THEN rep \o replaceAll(slice(s, Len(pat)), pat, rep)
    ELSE <<s[1]>> \o replaceAll(Tail(s), pat, rep)

\* The index of the first quote of s, 0 when it has none.
firstQuote(s) ==
    IF \A i \in 1..Len(s) : s[i] # Q THEN 0
    ELSE CHOOSE i \in 1..Len(s) : s[i] = Q /\ \A j \in 1..(i - 1) : s[j] # Q

\* Where in the quoted value v the pattern ([^"]*/)old(/[^"]*) has old, the
\* first group taken as long as it can be; 0 when v does not match.
midSegment(v, old) ==
    LET at == { k \in 1..Len(v) :
                    /\ v[k] = "/"
                    /\ startsWith(slice(v, k), old)
                    /\ k + Len(old) + 1 <= Len(v)
                    /\ v[k + Len(old) + 1] = "/" }
    IN  IF at = {} THEN 0 ELSE CHOOSE k \in at : \A m \in at : m <= k

\* replace(/parent="([^"]*\/)old(\/[^"]*)"/g, 'parent="$1new$2"')
RECURSIVE replaceParentMid(_, _, _)
replaceParentMid(s, old, new) ==
    IF Len(s) = 0 THEN s
    ELSE IF startsWith(s, <<"parent=", Q>>) /\ firstQuote(slice(s, 2)) > 0
         THEN LET rest == slice(s, 2)
                  q == firstQuote(rest)
                  v == SubSeq(rest, 1, q - 1)
                  k == midSegment(v, old)
              IN  IF k > 0
                  THEN <<"parent=", Q>> \o SubSeq(v, 1, k) \o new \o slice(v, k + Len(old)) \o <<Q>>
                           \o replaceParentMid(slice(rest, q), old, new)
                  ELSE <<s[1]>> \o replaceParentMid(Tail(s), old, new)
         ELSE <<s[1]>> \o replaceParentMid(Tail(s), old, new)

\* replace(/parent="([^"]*\/)old"/g, 'parent="$1new"')
RECURSIVE replaceParentLast(_, _, _)
replaceParentLast(s, old, new) ==
    IF Len(s) = 0 THEN s
    ELSE IF startsWith(s, <<"parent=", Q>>) /\ firstQuote(slice(s, 2)) > 0
         THEN LET rest == slice(s, 2)
                  q == firstQuote(rest)
                  v == SubSeq(rest, 1, q - 1)
              IN  IF endsWith(v, <<"/">> \o old)
                  THEN <<"parent=", Q>> \o SubSeq(v, 1, Len(v) - Len(old)) \o new \o <<Q>>
                           \o replaceParentLast(slice(rest, q), old, new)
                  ELSE <<s[1]>> \o replaceParentLast(Tail(s), old, new)
         ELSE <<s[1]>> \o replaceParentLast(Tail(s), old, new)

renameNodeInContent(text, oldName, newName) ==
    LET r1 == replaceAll(text, attr("name=", oldName), attr("name=", newName))
        r2 == replaceAll(r1, attr("parent=", oldName), attr("parent=", newName))
        r3 == replaceParentMid(r2, oldName, newName)
        r4 == replaceParentLast(r3, oldName, newName)
        r5 == replaceAll(r4, attr("from=", oldName), attr("from=", newName))
    IN  replaceAll(r5, attr("to=", oldName), attr("to=", newName))

\* The for loop of setNodePropertyInContent and the push that follows it.
RECURSIVE setPropertyLoop(_, _, _, _, _, _, _, _)
setPropertyLoop(lines, i, nodeName, property, value, inTargetNode, propertySet, result) ==
    LET assignment == property \o <<" ", "=", " ">> \o value
    IN  IF i > Len(lines)
        THEN IF inTargetNode /\ ~propertySet THEN Append(result, assignment) ELSE result
        ELSE LET trimmed == trim(lines[i])
             IN  IF startsWith(trimmed, <<"[", "node">>) /\ includes(trimmed, attr("name=", nodeName))
                 THEN setPropertyLoop(lines, i + 1, nodeName, property, value, TRUE, propertySet,
                                      Append(result, lines[i]))
                 ELSE LET leaving == inTargetNode /\ startsWith(trimmed, <<"[">>)
                          inserted == IF leaving /\ ~propertySet THEN Append(result, assignment) ELSE result
                          set1 == propertySet \/ leaving
                          in1 == inTargetNode /\ ~leaving
                      IN  IF in1 /\ startsWith(trimmed, property \o <<" ">>)
                          THEN setPropertyLoop(lines, i + 1, nodeName, property, value, in1, TRUE,
                                               Append(inserted, assignment))
                          ELSE setPropertyLoop(lines, i + 1, nodeName, property, value, in1, set1,
                                               Append(inserted, lines[i]))

\* A setNodePropertyInContent that never looks for the property and adds the
\* assignment at the end of the text.
setNodePropertyAppending(text, nodeName, property, value) ==
    text \o <<NL>> \o property \o <<" ", "=", " ">> \o value

setNodePropertyInContent(text, nodeName, property, value) ==
    join(setPropertyLoop(split(text, NL), 1, nodeName, property, value, FALSE, FALSE, <<>>), <<NL>>)

(***************************************************************************)
(* Scene texts patched by one call of one of the three patches.            *)
(***************************************************************************)
MaxLines == 3

NodeNames == { <<"A">>, <<"A", "A">>, <<"B">> }

nodeLine(name) == <<"[", "node", " ">> \o attr("name=", name) \o <<"]">>

childLine(name, parent) ==
    <<"[", "node", " ">> \o attr("name=", name) \o <<" ">> \o attr("parent=", parent) \o <<"]">>

connectionLine(from, to) ==
    <<"[", "connection", " ">> \o attr("signal=", <<"s">>) \o <<" ">> \o attr("from=", from)
        \o <<" ">> \o attr("to=", to) \o <<" ">> \o attr("method=", <<"m">>) \o <<"]">>

\* The lines scene texts are made of: sections, node declarations with
\* parents that have the name as a whole segment or as part of one,
\* connections between nodes and between node paths, a node declaration
\* that is commented out, properties, an empty line.
LinePool ==
    { nodeLine(<<"A">>),
      <<" ", " ">> \o childLine(<<"A", "A">>, <<"A">>),
      childLine(<<"B">>, <<"A", "/", "A", "A">>),
      childLine(<<"B">>, <<"B", "/", "A", "/", "A">>),
      connectionLine(<<"A">>, <<"B">>),
      connectionLine(<<"B">>, <<"A", "A">>),
      connectionLine(<<"B", "/", "A">>, <<"A", "/", "B">>),
      <<";">> \o nodeLine(<<"A">>),
      <<"[", "gd_scene", " ", "format=", "3", "]">>,
      <<"k", " ", "=", " ", "1">>,
      <<" ", "k", "=", "1">>,
      <<>> }

SceneTexts == { join(ls, <<NL>>) : ls \in SeqsUpTo(LinePool, MaxLines) }

Properties == { <<"k">>, <<" ", "k">>, <<"k", "/", "j">> }

PropertyValues == { <<"2">>, <<"2", NL, "3">> }

NoPatch == [op |-> "none", nodeName |-> <<>>, newName |-> <<>>, property |-> <<>>, value |-> <<>>]

InitScene ==
    /\ pc = "call"
    /\ content \in SceneTexts
    /\ patch = NoPatch
    /\ patched = <<>>
    /\ PathIdle /\ FsIdle /\ CodecIdle

RemoveNode ==
    \E nodeName \in NodeNames :
        /\ pc = "call"
        /\ pc' = "done"
        /\ patch' = [NoPatch EXCEPT !.op = "remove", !.nodeName = nodeName]
        /\ patched' = removeNodeFromContent(content, nodeName)
        /\ UNCHANGED <<content, pathVars, fsVars, codecVars>>

RenameNode ==
    \E oldName \in NodeNames, newName \in NodeNames :
        /\ pc = "call"
        /\ pc' = "done"
        /\ patch' = [NoPatch EXCEPT !.op = "rename", !.nodeName = oldName, !.newName = newName]
        /\ patched' = renameNodeInContent(content, oldName, newName)
        /\ UNCHANGED <<content, pathVars, fsVars, codecVars>>

SetNodeProperty ==
    \E nodeName \in NodeNames, property \in Properties, value \in PropertyValues :
        /\ pc = "call"
        /\ pc' = "done"
        /\ patch' = [NoPatch EXCEPT !.op = "set", !.nodeName = nodeName,
                                    !.property = property, !.value = value]
        /\ patched' = setNodePropertyInContent(content, nodeName, property, value)
        /\ UNCHANGED <<content, pathVars, fsVars, codecVars>>

NextScene == RemoveNode \/ RenameNode \/ SetNodeProperty

SpecScene == InitScene /\ [][NextScene]_vars

\* The lines of a text.
linesOf(text) == split(text, NL)

isNodeDeclaration(line) == startsWith(trim(line), <<"[", "node">>)

isConnection(line) == startsWith(trim(line), <<"[", "connection">>)

\* C6: after removeNode(text, X) no line of the output is a node declaration
\* whose name is X, and no line is a connection whose from or to is X.
C6_RemovedNodeIsGone ==
    patch.op = "remove" =>
        \A i \in 1..Len(linesOf(patched)) :
            LET line == linesOf(patched)[i]
            IN  /\ isNodeDeclaration(line) => matchAttr(trim(line), "name=") # <<TRUE, patch.nodeName>>
                /\ isConnection(line) =>
                       /\ matchAttr(trim(line), "from=") # <<TRUE, patch.nodeName>>
                       /\ matchAttr(trim(line), "to=") # <<TRUE, patch.nodeName>>

\* A text with the node declared and a connection to it, after its removal.
C6_Witness ==
    /\ patch.op = "remove"
    /\ \E i \in 1..Len(linesOf(content)) :
           /\ isNodeDeclaration(linesOf(content)[i])
           /\ matchAttr(linesOf(content)[i], "name=") = <<TRUE, patch.nodeName>>
    /\ \E i \in 1..Len(linesOf(content)) :
           /\ isConnection(linesOf(content)[i])
           /\ matchAttr(linesOf(content)[i], "to=") = <<TRUE, patch.nodeName>>
    /\ Len(patched) < Len(content)

\* A parent path with every segment that is oldName replaced by newName.
RECURSIVE renamedSegments(_, _, _)
renamedSegments(segs, oldName, newName) ==
    IF Len(segs) = 0 THEN <<>>
    ELSE <<IF segs[1] = oldName THEN newName ELSE segs[1]>>
             \o renamedSegments(Tail(segs), oldName, newName)

renamedPath(path, oldName, newName) ==
    join(renamedSegments(split(path, "/"), oldName, newName), <<"/">>)

\* C7: after renameNode(text, A, B) every parent path has each whole segment
\* A replaced by B, a path that begins with A included, and no other segment
\* changed; a node whose name only contains A keeps its name.
C7_RenameRewritesParents ==
    patch.op = "rename" =>
        /\ Len(linesOf(patched)) = Len(linesOf(content))
        /\ \A i \in 1..Len(linesOf(content)) :
               LET before == linesOf(content)[i]
                   after == linesOf(patched)[i]
                   parentBefore == matchAttr(before, "parent=")
                   nameBefore == matchAttr(before, "name=")
               IN  /\ matchAttr(after, "parent=") =
                          IF parentBefore[1]
                          THEN <<TRUE, renamedPath(parentBefore[2], patch.nodeName, patch.newName)>>
                          ELSE <<FALSE>>
                   /\ (nameBefore[1] /\ nameBefore[2] # patch.nodeName) =>
                          matchAttr(after, "name=") = nameBefore

\* C8 as stated: setProperty called again with the same node name, key and
\* value on its own output returns that output, whatever the arguments.
C8_SetPropertyIdempotentAsStated ==
    patch.op = "set" =>
        setNodePropertyInContent(patched, patch.nodeName, patch.property, patch.value) = patched

\* A key the second call finds again: it starts with a character that is
\* neither white space nor "[", and has no line break.
isPlainKey(property) ==
    /\ Len(property) > 0
    /\ property[1] \notin Whitespace \cup {"["}
    /\ \A i \in 1..Len(property) : property[i] # NL

isSingleLine(value) == \A i \in 1..Len(value) : value[i] # NL

\* C8: for a key that starts with a character other than white space and "["
\* and a key and a value without line breaks, setProperty called again with
\* the same arguments on its own output returns that output.
C8_SetPropertyIdempotent ==
    (patch.op = "set" /\ isPlainKey(patch.property) /\ isSingleLine(patch.value)) =>
        setNodePropertyInContent(patched, patch.nodeName, patch.property, patch.value) = patched

\* The property set on a node that had it with another value.
C8_Witness ==
    /\ patch.op = "set" /\ isPlainKey(patch.property) /\ isSingleLine(patch.value)
    /\ \E i \in 1..Len(linesOf(content)) :
           /\ isNodeDeclaration(linesOf(content)[i])
           /\ matchAttr(linesOf(content)[i], "name=") = <<TRUE, patch.nodeName>>
    /\ includes(content, <<NL>> \o patch.property \o <<" ", "=", " ", "1">>)
    /\ includes(patched, <<NL>> \o patch.property \o <<" ", "=", " ">> \o patch.value)
    /\ ~includes(patched, <<NL>> \o patch.property \o <<" ", "=", " ", "1">>)

(***************************************************************************)
(* The value codec of godot-types.ts.  A JavaScript value is a record with *)
(* its type in t: null, a boolean, a number, a string, an array of values, *)
(* or an object with numbers under its keys.  Numbers are integers.        *)
(***************************************************************************)
JNull == [t |-> "null"]
JBool(b) == [t |-> "bool", v |-> b]
JNum(n) == [t |-> "num", v |-> n]
JStr(chars) == [t |-> "str", v |-> chars]
JArr(items) == [t |-> "arr", v |-> items]
JObj(fields) == [t |-> "obj", v |-> fields]

DigitChars == <<"0", "1", "2", "3", "4", "5", "6", "7", "8", "9">>

Digits == { DigitChars[i] : i \in 1..10 }

\* Number.prototype.toString of an integer.
RECURSIVE natToString(_)
natToString(n) ==
    IF n < 10 THEN <<DigitChars[n + 1]>>
    ELSE natToString(n \div 10) \o <<DigitChars[(n % 10) + 1]>>

numberToString(n) == IF n < 0 THEN <<"-">> \o natToString(0 - n) ELSE natToString(n)

digitValue(c) == CHOOSE d \in 0..9 : DigitChars[d + 1] = c

RECURSIVE digitsToNat(_, _)
digitsToNat(ds, acc) ==
    IF Len(ds) = 0 THEN acc ELSE digitsToNat(Tail(ds), acc * 10 + digitValue(ds[1]))

\* /^-?\d+$/: the integer literals of the number pattern.
isNumberLiteral(s) ==
    LET ds == IF Len(s) > 0 /\ s[1] = "-" THEN Tail(s) ELSE s
    IN  Len(ds) > 0 /\ \A i \in 1..Len(ds) : ds[i] \in Digits

\* Number.parseFloat and Number.parseInt(_, 10) of an integer literal.
parseFloat(s) ==
    IF s[1] = "-" THEN 0 - digitsToNat(Tail(s), 0) ELSE digitsToNat(s, 0)

\* An object that encodes with Vector2 tried first, before Rect2 and Vector3.
objectToGodotVector2First(obj) ==
    LET has(k) == k \in DOMAIN obj
        n(k) == numberToString(obj[k])
    IN  IF has("x") /\ has("y")
        THEN <<"Vector2(">> \o n("x") \o <<",", " ">> \o n("y") \o <<")">>
        ELSE IF has("r") /\ has("g") /\ has("b")
        THEN <<"Color(">> \o n("r") \o <<",", " ">> \o n("g") \o <<",", " ">> \o n("b")
                 \o <<",", " ">> \o (IF has("a") THEN n("a") ELSE numberToString(1)) \o <<")">>
        ELSE <<"[object Object]">>

\* The object branch of toGodotValue.
objectToGodot(obj) ==
    LET has(k) == k \in DOMAIN obj
        n(k) == numberToString(obj[k])
    IN  IF has("x") /\ has("y") /\ has("w") /\ has("h")
        THEN <<"Rect2(">> \o n("x") \o <<",", " ">> \o n("y") \o <<",", " ">> \o n("w")
                 \o <<",", " ">> \o n("h") \o <<")">>
        ELSE IF has("x") /\ has("y") /\ has("z")
        THEN <<"Vector3(">> \o n("x") \o <<",", " ">> \o n("y") \o <<",", " ">> \o n("z") \o <<")">>
        ELSE IF has("x") /\ has("y")
        THEN <<"Vector2(">> \o n("x") \o <<",", " ">> \o n("y") \o <<")">>
        ELSE IF has("r") /\ has("g") /\ has("b")
        THEN <<"Color(">> \o n("r") \o <<",", " ">> \o n("g") \o <<",", " ">> \o n("b")
                 \o <<",", " ">> \o (IF has("a") THEN n("a") ELSE numberToString(1)) \o <<")">>
        ELSE <<"[object Object]">>

RECURSIVE toGodotValue(_)
toGodotValue(value) ==
    IF value.t = "null" THEN <<"null">>
    ELSE IF value.t = "bool" THEN (IF value.v THEN <<"true">> ELSE <<"false">>)
    ELSE IF value.t = "num" THEN numberToString(value.v)
    ELSE IF value.t = "str" THEN <<Q>> \o value.v \o <<Q>>
    ELSE IF value.t = "arr"
    THEN <<"[">> \o join([i \in 1..Len(value.v) |-> toGodotValue(value.v[i])], <<",", " ">>) \o <<"]">>
    ELSE objectToGodot(value.v)

\* /-?[\d.]+/ between \s*: one argument of a call, white space around it.
isNumberArg(s) == isNumberLiteral(trim(s))

\* The arguments of name(a, b, ...) when trimmed is such a call of one of the
\* given numbers of number arguments, <<>> when it is not.
matchCall(trimmed, name, arities) ==
    IF Len(trimmed) >= 2 /\ trimmed[1] = name /\ trimmed[Len(trimmed)] = ")"
    THEN LET parts == split(SubSeq(trimmed, 2, Len(trimmed) - 1), ",")
         IN  IF Len(parts) \in arities /\ \A i \in 1..Len(parts) : isNumberArg(parts[i])
             THEN [i \in 1..Len(parts) |-> parseFloat(trim(parts[i]))]
             ELSE <<>>
    ELSE <<>>

\* The id of name("id") when trimmed is such a reference, <<FALSE>> if not.
matchQuotedCall(trimmed, name) ==
    IF /\ Len(trimmed) >= 4
       /\ trimmed[1] = name /\ trimmed[2] = Q
       /\ trimmed[Len(trimmed) - 1] = Q /\ trimmed[Len(trimmed)] = ")"
       /\ \A i \in 3..(Len(trimmed) - 2) : trimmed[i] # Q
    THEN <<TRUE, SubSeq(trimmed, 3, Len(trimmed) - 2)>>
    ELSE <<FALSE>>

\* s.slice(1, -1)
sliceInner(s) == SubSeq(s, 2, Len(s) - 1)

\* A string literal read with its quotes left on.
unquoteKeepingQuotes(trimmed) == trimmed

\* The text of a quoted string literal.
unquote(trimmed) == sliceInner(trimmed)

RECURSIVE parseGodotValue(_)
parseGodotValue(expr) ==
    LET trimmed == trim(expr)
        quoted(q) == startsWith(trimmed, <<q>>) /\ endsWith(trimmed, <<q>>)
        v2Match == matchCall(trimmed, "Vector2(", {2})
        v2iMatch == matchCall(trimmed, "Vector2i(", {2})
        v3Match == matchCall(trimmed, "Vector3(", {3})
        colorMatch == matchCall(trimmed, "Color(", {3, 4})
        rectMatch == matchCall(trimmed, "Rect2(", {4})
        npMatch == matchQuotedCall(trimmed, "NodePath(")
        extMatch == matchQuotedCall(trimmed, "ExtResource(")
        subMatch == matchQuotedCall(trimmed, "SubResource(")
    IN  IF trimmed = <<"true">> THEN JBool(TRUE)
        ELSE IF trimmed = <<"false">> THEN JBool(FALSE)
        ELSE IF trimmed = <<"null">> THEN JNull
        ELSE IF isNumberLiteral(trimmed) THEN JNum(parseFloat(trimmed))
        ELSE IF quoted(Q) \/ quoted("'") THEN JStr(unquote(trimmed))
        ELSE IF v2Match # <<>> THEN JObj([x |-> v2Match[1], y |-> v2Match[2]])
        ELSE IF v2iMatch # <<>> THEN JObj([x |-> v2iMatch[1], y |-> v2iMatch[2]])
        ELSE IF v3Match # <<>> THEN JObj([x |-> v3Match[1], y |-> v3Match[2], z |-> v3Match[3]])
        ELSE IF colorMatch # <<>>
        THEN JObj([r |-> colorMatch[1], g |-> colorMatch[2], b |-> colorMatch[3],
                   a |-> IF Len(colorMatch) = 4 THEN colorMatch[4] ELSE 1])
        ELSE IF rectMatch # <<>>
        THEN JObj([x |-> rectMatch[1], y |-> rectMatch[2], w |-> rectMatch[3], h |-> rectMatch[4]])
        ELSE IF npMatch[1] THEN JStr(npMatch[2])
        ELSE IF extMatch[1] THEN JStr(<<"ExtResource(", Q>> \o extMatch[2] \o <<Q, ")">>)
        ELSE IF subMatch[1] THEN JStr(<<"SubResource(", Q>> \o subMatch[2] \o <<Q, ")">>)
        ELSE IF startsWith(trimmed, <<"[">>) /\ endsWith(trimmed, <<"]">>)
        THEN LET inner == trim(sliceInner(trimmed))
                 items == split(inner, ",")
             IN  IF Len(inner) = 0 THEN JArr(<<>>)
                 ELSE JArr([i \in 1..Len(items) |-> parseGodotValue(trim(items[i]))])
        ELSE JStr(trimmed)

(***************************************************************************)
(* Values and value texts taken through the codec, one function a step.    *)
(***************************************************************************)
MaxInt == 11
MaxStringLen == 2
MaxArrayLen == 2
MaxSteps == 2

IntegerValues == (0 - MaxInt)..MaxInt

\* The numbers the objects hold.
Components == {0 - MaxInt, 0, 1, MaxInt}

StringChars == {"a", ",", " "}

Strings == SeqsUpTo(StringChars, MaxStringLen)

Objects ==
    [x : Components, y : Components]
        \cup [x : Components, y : Components, z : Components]
        \cup [r : Components, g : Components, b : Components]
        \cup [r : Components, g : Components, b : Components, a : Components]
        \cup [x : Components, y : Components, w : Components, h : Components]

\* What the arrays hold: scalars, strings, an object and arrays.
Elements ==
    { JNull, JBool(TRUE), JNum(1), JNum(0 - MaxInt), JStr(<<"a">>), JStr(<<" ">>), JStr(<<"a", ",", "a">>),
      JObj([x |-> 1, y |-> 0]), JArr(<<>>), JArr(<<JNum(1), JNum(0)>>) }

Values ==
    {JNull, JBool(TRUE), JBool(FALSE)}
        \cup { JNum(n) : n \in IntegerValues }
        \cup { JStr(chars) : chars \in Strings }
        \cup { JObj(fields) : fields \in Objects }
        \cup { JArr(items) : items \in SeqsUpTo(Elements, MaxArrayLen) }

\* Value texts as Godot writes them, kind by kind.
NumeralChars == {"-", "0", "1", "9"}

isCanonicalNumeral(s) ==
    LET ds == IF Len(s) > 0 /\ s[1] = "-" THEN Tail(s) ELSE s
    IN  /\ Len(ds) > 0
        /\ \A i \in 1..Len(ds) : ds[i] \in Digits
        /\ ds[1] = "0" => (Len(ds) = 1 /\ s = ds)

IntegerTexts == { s \in SeqsUpTo(NumeralChars, 3) : isCanonicalNumeral(s) }

ScalarTexts == { <<"true">>, <<"false">>, <<"null">> } \cup IntegerTexts

StringTexts == { <<Q>> \o chars \o <<Q>> : chars \in Strings }

ComponentTexts == { <<"-", "1">>, <<"0">>, <<"1", "0">> }

callText(name, args) == <<name>> \o join(args, <<",", " ">>) \o <<")">>

CallTexts ==
    { callText("Vector2(", args) : args \in [1..2 -> ComponentTexts] }
        \cup { callText("Vector3(", args) : args \in [1..3 -> ComponentTexts] }
        \cup { callText("Color(", args) : args \in [1..4 -> ComponentTexts] }
        \cup { callText("Rect2(", args) : args \in [1..4 -> ComponentTexts] }

Ids == { <<>>, <<"a">>, <<"a", "/", "a">> }

quotedCallText(name, id) == <<name, Q>> \o id \o <<Q, ")">>

NodePathTexts == { quotedCallText("NodePath(", id) : id \in Ids }

ResourceTexts ==
    { quotedCallText("ExtResource(", id) : id \in Ids }
        \cup { quotedCallText("SubResource(", id) : id \in Ids }

arrayText(items) == <<"[">> \o join(items, <<",", " ">>) \o <<"]">>

\* Array elements that have no comma of their own and decode to a value
\* that encodes to the same text.
PlainElementTexts == { <<"true">>, <<"null">>, <<"1">>, <<"-", "1", "0">>, <<Q, "a", Q>> }

ElementTexts ==
    PlainElementTexts
        \cup { <<Q, "a", ",", "a", Q>>, callText("Vector2(", <<<<"1">>, <<"0">>>>),
               quotedCallText("NodePath(", <<"a">>) }

PlainArrayTexts == { arrayText(items) : items \in SeqsUpTo(PlainElementTexts, MaxArrayLen) }

ArrayTexts == { arrayText(items) : items \in SeqsUpTo(ElementTexts, MaxArrayLen) }

CanonicalTexts ==
    ScalarTexts \cup StringTexts \cup CallTexts \cup NodePathTexts \cup ResourceTexts \cup ArrayTexts

\* Texts decode takes that are written in other ways.
OtherTexts ==
    { <<" ", "4", "2", " ">>, <<"-", "0">>, <<"0", "1">>, <<"'", "a", "'">>,
      <<"Vector2i(", "1", ",", " ", "2", ")">>, <<"Vector2(", " ", "1", " ", ",", "2", " ", ")">>,
      <<"Color(", "1", ",", " ", "0", ",", " ", "0", ")">>, <<"[", " ", "]">>,
      <<"SomeUnknownType()">>, <<>> }

Texts == CanonicalTexts \cup OtherTexts

aValue(value) == [kind |-> "value", of |-> value]

aText(text) == [kind |-> "text", of |-> text]

InitCodec ==
    /\ pc = "codec"
    /\ origin \in { aValue(value) : value \in Values } \cup { aText(text) : text \in Texts }
    /\ datum = origin
    /\ steps = 0
    /\ PathIdle /\ FsIdle /\ SceneIdle

ToGodotValue ==
    /\ datum.kind = "value"
    /\ steps < MaxSteps
    /\ datum' = aText(toGodotValue(datum.of))
    /\ steps' = steps + 1
    /\ UNCHANGED <<pc, origin, pathVars, fsVars, sceneVars>>

ParseGodotValue ==
    /\ datum.kind = "text"
    /\ steps < MaxSteps
    /\ datum' = aValue(parseGodotValue(datum.of))
    /\ steps' = steps + 1
    /\ UNCHANGED <<pc, origin, pathVars, fsVars, sceneVars>>

NextCodec == ToGodotValue \/ ParseGodotValue

SpecCodec == InitCodec /\ [][NextCodec]_vars

\* C9 as stated: every value, a Color without alpha and every array
\* included, comes back from decode(encode(v)) as it was.
C9_DecodeEncodeAsStated ==
    (origin.kind = "value" /\ steps = 2) => datum = origin

\* An array element whose text has no comma.
isPlainElement(value) ==
    \/ value.t \in {"null", "bool", "num"}
    \/ value.t = "str" /\ \A i \in 1..Len(value.v) : value.v[i] # ","

isColorWithoutAlpha(value) == value.t = "obj" /\ DOMAIN value.v = {"r", "g", "b"}

\* C9: decode(encode(v)) = v for Bool, Null, integers, strings (what a
\* NodePath is held as), Vector2, Vector3, Color with alpha, Rect2 and arrays
\* of Bool, Null, integers and strings without a comma; a Color without
\* alpha comes back as that colour with alpha 1.
C9_DecodeEncode ==
    (origin.kind = "value" /\ steps = 2) =>
        LET value == origin.of
        IN  /\ value.t \in {"null", "bool", "num", "str"} => datum = origin
            /\ (value.t = "obj" /\ ~isColorWithoutAlpha(value)) => datum = origin
            /\ isColorWithoutAlpha(value) =>
                   datum.of = JObj([r |-> value.v.r, g |-> value.v.g, b |-> value.v.b, a |-> 1])
            /\ (value.t = "arr" /\ \A i \in 1..Len(value.v) : isPlainElement(value.v[i])) =>
                   datum = origin

\* A mixed array of a number and a string, back from the two conversions.
C9_Witness ==
    /\ origin.kind = "value" /\ steps = 2
    /\ origin.of.t = "arr" /\ Len(origin.of.v) = 2
    /\ origin.of.v[1].t = "num" /\ origin.of.v[2].t = "str"
    /\ datum = origin

Undefined == <<FALSE>>

\* line.match(/id="([^"]*)"/), without the space: it also finds the end of
\* uid="...".
matchUnspacedAttr(line, key) ==
    LET starts == { i \in 1..Len(line) :
                        /\ i + 1 <= Len(line)
                        /\ line[i] \in {key, "uid="} /\ line[i + 1] = Q
                        /\ \E j \in (i + 2)..Len(line) : line[j] = Q }
    IN  IF starts = {} THEN Undefined
        ELSE LET i == CHOOSE k \in starts : \A m \in starts : k <= m
             IN  matchAttr(SubSeq(line, i, Len(line)), line[i])

\* line.match(/ id="([^"]*)"/): the attribute with a space before it.
matchSpacedAttr(line, key) ==
    LET starts == { i \in 1..Len(line) :
                        /\ i + 2 <= Len(line)
                        /\ line[i] = " " /\ line[i + 1] = key /\ line[i + 2] = Q
                        /\ \E j \in (i + 3)..Len(line) : line[j] = Q }
    IN  IF starts = {} THEN Undefined
        ELSE LET i == CHOOSE k \in starts : \A m \in starts : k <= m
             IN  matchAttr(SubSeq(line, i + 1, Len(line)), key)

\* The digits that follow the i-th character of the line.
RECURSIVE digitsFrom(_, _)
digitsFrom(line, i) ==
    IF i + 1 <= Len(line) /\ line[i + 1] \in Digits
    THEN <<line[i + 1]>> \o digitsFrom(line, i + 1)
    ELSE <<>>

\* line.match(/key=(\d+)/) and Number.parseInt of what it found.
matchNumber(line, key) ==
    LET starts == { i \in 1..Len(line) : line[i] = key /\ Len(digitsFrom(line, i)) > 0 }
    IN  IF starts = {} THEN Undefined
        ELSE LET i == CHOOSE k \in starts : \A m \in starts : k <= m
             IN  <<TRUE, digitsToNat(digitsFrom(line, i), 0)>>

\* line.match(/instance=ExtResource\("([^"]*)"\)/)
matchInstance(line) ==
    LET starts == { i \in 1..Len(line) :
                        /\ i + 2 <= Len(line)
                        /\ line[i] = "instance=" /\ line[i + 1] = "ExtResource(" /\ line[i + 2] = Q
                        /\ \E j \in (i + 3)..(Len(line) - 1) :
                               /\ line[j] = Q /\ line[j + 1] = ")"
                               /\ \A m \in (i + 3)..(j - 1) : line[m] # Q }
    IN  IF starts = {} THEN Undefined
        ELSE LET i == CHOOSE k \in starts : \A m \in starts : k <= m
                 j == CHOOSE k \in (i + 3)..(Len(line) - 1) :
                          line[k] = Q /\ \A m \in (i + 3)..(k - 1) : line[m] # Q
             IN  <<TRUE, SubSeq(line, i + 3, j - 1)>>

\* g.trim().replace(/"/g, '') of one entry of groups=[...].
groupName(g) == SelectSeq(trim(g), LAMBDA c : c # Q)

\* line.match(/groups=\[([^\]]*)\]/), split at the commas, empty names dropped.
matchGroups(line) ==
    LET starts == { i \in 1..Len(line) :
                        /\ i + 1 <= Len(line)
                        /\ line[i] = "groups=" /\ line[i + 1] = "["
                        /\ \E j \in (i + 2)..Len(line) : line[j] = "]" }
    IN  IF starts = {} THEN Undefined
        ELSE LET i == CHOOSE k \in starts : \A m \in starts : k <= m
                 j == CHOOSE k \in (i + 2)..Len(line) :
                          line[k] = "]" /\ \A m \in (i + 2)..(k - 1) : line[m] # "]"
                 parts == split(SubSeq(line, i + 2, j - 1), ",")
             IN  <<TRUE, SelectSeq([n \in 1..Len(parts) |-> groupName(parts[n])],
                                   LAMBDA g : Len(g) > 0)>>

\* The characters \w matches, among those the texts are written with.
WordChars ==
    Digits \cup {"a", "j", "k", "m", "p", "s", "x", "A", "B", "T", "_",
                 "node", "connection", "gd_scene", "ext_resource", "sub_resource",
                 "true", "false", "null"}

RECURSIVE wordPrefixLen(_)
wordPrefixLen(s) ==
    IF Len(s) > 0 /\ s[1] \in WordChars THEN 1 + wordPrefixLen(Tail(s)) ELSE 0

\* line.match(/^(\w+)\s*=\s*(.+)$/) on a trimmed line: <<TRUE, key, value>>.
matchProperty(line) ==
    LET n == wordPrefixLen(line)
        afterKey == trimStart(slice(line, n))
    IN  IF n > 0 /\ Len(afterKey) > 1 /\ afterKey[1] = "="
        THEN <<TRUE, SubSeq(line, 1, n), trimStart(Tail(afterKey))>>
        ELSE Undefined

NoProperties == [key \in {} |-> <<>>]

\* A withProperty that keeps the first value of a key.
withPropertyOnce(entity, key, value) ==
    [entity EXCEPT !.properties =
        [k \in DOMAIN entity.properties \cup {key} |->
            IF k \in DOMAIN entity.properties THEN entity.properties[k] ELSE value]]

\* currentNode.properties[key] = value
withProperty(entity, key, value) ==
    [entity EXCEPT !.properties =
        [k \in DOMAIN entity.properties \cup {key} |->
            IF k = key THEN value ELSE entity.properties[k]]]

\* The parser before the first line.
ParseStart ==
    [header |-> [format |-> 3, loadSteps |-> 1, uid |-> Undefined],
     extResources |-> <<>>, subResources |-> <<>>, nodes |-> <<>>, connections |-> <<>>,
     currentSection |-> "null", currentNode |-> <<>>, currentSubResource |-> <<>>]

\* if (currentNode) nodes.push(currentNode), and the same for a sub-resource.
savePending(st) ==
    [st EXCEPT !.nodes = st.nodes \o st.currentNode,
               !.subResources = st.subResources \o st.currentSubResource,
               !.currentNode = <<>>,
               !.currentSubResource = <<>>]

\* The branch of the loop for a line that starts with "[".
parseSectionHeader(line, st0) ==
    LET st == savePending(st0)
        has(m) == m[1]
    IN  IF startsWith(line, <<"[", "gd_scene">>)
        THEN LET formatMatch == matchNumber(line, "format=")
                 stepsMatch == matchNumber(line, "load_steps=")
                 uidMatch == matchAttr(line, "uid=")
             IN  [st EXCEPT !.currentSection = "header",
                            !.header = [format |-> IF has(formatMatch) THEN formatMatch[2]
                                                   ELSE st.header.format,
                                        loadSteps |-> IF has(stepsMatch) THEN stepsMatch[2]
                                                      ELSE st.header.loadSteps,
                                        uid |-> IF has(uidMatch) THEN uidMatch ELSE st.header.uid]]
        ELSE IF startsWith(line, <<"[", "ext_resource">>)
        THEN LET typeMatch == matchAttr(line, "type=")
                 uidMatch == matchAttr(line, "uid=")
                 pathMatch == matchAttr(line, "path=")
                 idMatch == matchSpacedAttr(line, "id=")
             IN  [st EXCEPT !.currentSection = "ext_resource",
                            !.extResources =
                                IF has(typeMatch) /\ has(pathMatch) /\ has(idMatch)
                                THEN Append(st.extResources,
                                            [type |-> typeMatch[2], uid |-> uidMatch,
                                             path |-> pathMatch[2], id |-> idMatch[2]])
                                ELSE st.extResources]
        ELSE IF startsWith(line, <<"[", "sub_resource">>)
        THEN LET typeMatch == matchAttr(line, "type=")
                 idMatch == matchSpacedAttr(line, "id=")
             IN  [st EXCEPT !.currentSection = "sub_resource",
                            !.currentSubResource =
                                IF has(typeMatch) /\ has(idMatch)
                                THEN <<[type |-> typeMatch[2], id |-> idMatch[2],
                                        properties |-> NoProperties]>>
                                ELSE <<>>]
        ELSE IF startsWith(line, <<"[", "node">>)
        THEN LET nameMatch == matchAttr(line, "name=")
             IN  [st EXCEPT !.currentSection = "node",
                            !.currentNode =
                                IF has(nameMatch)
                                THEN <<[name |-> nameMatch[2],
                                        type |-> matchAttr(line, "type="),
                                        parent |-> matchAttr(line, "parent="),
                                        instance |-> matchInstance(line),
                                        properties |-> NoProperties,
                                        groups |-> matchGroups(line)]>>
                                ELSE <<>>]
        ELSE IF startsWith(line, <<"[", "connection">>)
        THEN LET signalMatch == matchAttr(line, "signal=")
                 fromMatch == matchAttr(line, "from=")
                 toMatch == matchAttr(line, "to=")
                 methodMatch == matchAttr(line, "method=")
             IN  [st EXCEPT !.currentSection = "connection",
                            !.connections =
                                IF has(signalMatch) /\ has(fromMatch) /\ has(toMatch) /\ has(methodMatch)
                                THEN Append(st.connections,
                                            [signal |-> signalMatch[2], from |-> fromMatch[2],
                                             to |-> toMatch[2], method |-> methodMatch[2],
                                             flags |-> matchNumber(line, "flags=")])
                                ELSE st.connections]
        ELSE st

\* The branch of the loop for any other line: a property of the open entity.
parsePropertyLine(line, st) ==
    LET propMatch == matchProperty(line)
    IN  IF ~propMatch[1] THEN st
        ELSE IF st.currentSection = "node" /\ Len(st.currentNode) > 0
        THEN [st EXCEPT !.currentNode = <<withProperty(st.currentNode[1], propMatch[2], propMatch[3])>>]
        ELSE IF st.currentSection = "sub_resource" /\ Len(st.currentSubResource) > 0
        THEN [st EXCEPT !.currentSubResource =
                            <<withProperty(st.currentSubResource[1], propMatch[2], propMatch[3])>>]
        ELSE st

RECURSIVE parseLines(_, _, _)
parseLines(lines, i, st) ==
    IF i > Len(lines) THEN savePending(st)
    ELSE LET line == trim(lines[i])
         IN  IF Len(line) = 0 \/ line[1] = ";" THEN parseLines(lines, i + 1, st)
             ELSE IF line[1] = "[" THEN parseLines(lines, i + 1, parseSectionHeader(line, st))
             ELSE parseLines(lines, i + 1, parsePropertyLine(line, st))

parseSceneContent(text) ==
    LET st == parseLines(split(text, NL), 1, ParseStart)
    IN  [header |-> st.header, extResources |-> st.extResources,
         subResources |-> st.subResources, nodes |-> st.nodes, connections |-> st.connections]

(***************************************************************************)
(* The nodes and signals tools, which read a scene file, patch its text    *)
(* and write it back.                                                      *)
(***************************************************************************)
\* key="value" at the start of s, the value at least minLen long:
\* <<TRUE, value, what follows the closing quote>>.
quotedAt(s, key, minLen) ==
    IF startsWith(s, <<key, Q>>) /\ firstQuote(slice(s, 2)) > minLen
    THEN LET q == firstQuote(slice(s, 2))
         IN  <<TRUE, SubSeq(s, 3, q + 1), slice(s, q + 2)>>
    ELSE Undefined

\* \s+ at the start of s: what follows it, <<FALSE>> without white space.
afterSpaces(s) == IF Len(s) > 0 /\ s[1] \in Whitespace THEN <<TRUE, trimStart(s)>> ELSE Undefined

\* trimmed.match(/^\[node\s+name="([^"]+)"\s+type="([^"]+)"(?:\s+parent="([^"]*)")?/):
\* <<TRUE, name, type, parent or null>>.
matchNodeDeclaration(trimmed) ==
    IF ~startsWith(trimmed, <<"[", "node">>) THEN Undefined
    ELSE LET s1 == afterSpaces(slice(trimmed, 2))
             name == IF s1[1] THEN quotedAt(s1[2], "name=", 1) ELSE Undefined
             s2 == IF name[1] THEN afterSpaces(name[3]) ELSE Undefined
             type == IF s2[1] THEN quotedAt(s2[2], "type=", 1) ELSE Undefined
             s3 == IF type[1] THEN afterSpaces(type[3]) ELSE Undefined
             parent == IF s3[1] THEN quotedAt(s3[2], "parent=", 0) ELSE Undefined
         IN  IF ~type[1] THEN Undefined
             ELSE <<TRUE, name[2], type[2], IF parent[1] THEN <<TRUE, parent[2]>> ELSE Undefined>>

\* parseNodes of the nodes tool: name, type and parent of the declared nodes.
RECURSIVE parseNodesLoop(_, _, _)
parseNodesLoop(lines, i, nodes) ==
    IF i > Len(lines) THEN nodes
    ELSE LET nodeMatch == matchNodeDeclaration(trim(lines[i]))
         IN  parseNodesLoop(lines, i + 1,
                 IF nodeMatch[1]
                 THEN Append(nodes, [name |-> nodeMatch[2], type |-> nodeMatch[3], parent |-> nodeMatch[4]])
                 ELSE nodes)

parseNodes(text) == parseNodesLoop(split(text, NL), 1, <<>>)

\* n.parent || '.'
parentOrDot(parent) == IF parent[1] /\ Len(parent[2]) > 0 THEN parent[2] ELSE <<".">>

handleNodes(action, args, d) ==
    LET scenePath == args.scene_path
        nodeName == args.name
        fullPath == fullPathOf(ProjectPath, scenePath)
        text == readFileSync(d, fullPath)
        written(updated) == Done(writeFileSync(d, fullPath, updated),
                                 {[op |-> "read", path |-> fullPath], [op |-> "write", path |-> fullPath]})
    IN  CASE action = "add" ->
                LET nodeType == IF Len(args.type) > 0 THEN args.type ELSE <<"Node">>
                    parent == IF Len(args.parent) > 0 THEN args.parent ELSE <<".">>
                    parentAttr == IF parent = <<".">> THEN <<>> ELSE <<" ">> \o attr("parent=", parent)
                    nodeDecl == <<NL, "[", "node", " ">> \o attr("name=", nodeName) \o <<" ">>
                                    \o attr("type=", nodeType) \o parentAttr \o <<"]", NL>>
                IN  IF Len(scenePath) = 0 \/ Len(nodeName) = 0 THEN Threw(d, "INVALID_ARGS")
                    ELSE IF ~existsSync(d, fullPath) THEN Threw(d, "SCENE_ERROR")
                    ELSE IF \E i \in 1..Len(parseNodes(text)) :
                                /\ parseNodes(text)[i].name = nodeName
                                /\ parentOrDot(parseNodes(text)[i].parent) = parent
                    THEN Threw(d, "NODE_ERROR")
                    ELSE written(trimEnd(text) \o <<NL>> \o nodeDecl)
          [] action = "remove" ->
                IF Len(scenePath) = 0 \/ Len(nodeName) = 0 THEN Threw(d, "INVALID_ARGS")
                ELSE IF ~existsSync(d, fullPath) THEN Threw(d, "SCENE_ERROR")
                ELSE written(removeNodeFromContent(text, nodeName))
          [] action = "rename" ->
                IF Len(scenePath) = 0 \/ Len(nodeName) = 0 \/ Len(args.new_name) = 0
                THEN Threw(d, "INVALID_ARGS")
                ELSE IF ~existsSync(d, fullPath) THEN Threw(d, "SCENE_ERROR")
                ELSE written(renameNodeInContent(text, nodeName, args.new_name))
          [] action = "set_property" ->
                IF Len(scenePath) = 0 \/ Len(nodeName) = 0 \/ Len(args.property) = 0
                THEN Threw(d, "INVALID_ARGS")
                ELSE IF ~existsSync(d, fullPath) THEN Threw(d, "SCENE_ERROR")
                ELSE written(setNodePropertyInContent(text, nodeName, args.property, args.value))
          [] OTHER -> Threw(d, "INVALID_ACTION")

\* A filter that drops every connection of the signal to the target's method,
\* whatever node it comes from.
staysConnectedByTarget(line, signal, from, to, method) ==
    LET trimmed == trim(line)
    IN  IF ~startsWith(trimmed, <<"[", "connection">>) THEN TRUE
        ELSE ~(/\ includes(trimmed, attr("signal=", signal))
               /\ includes(trimmed, attr("to=", to))
               /\ includes(trimmed, attr("method=", method)))

\* The filter of signals disconnect: the lines that stay.
staysConnected(line, signal, from, to, method) ==
    LET trimmed == trim(line)
    IN  IF ~startsWith(trimmed, <<"[", "connection">>) THEN TRUE
        ELSE ~(/\ includes(trimmed, attr("signal=", signal))
               /\ includes(trimmed, attr("from=", from))
               /\ includes(trimmed, attr("to=", to))
               /\ includes(trimmed, attr("method=", method)))

\* A signals connect that appends the connection without looking for it.
handleSignalsAppending(action, args, d) ==
    LET fullPath == fullPathOf(ProjectPath, args.scene_path)
        connectionText == <<NL, "[", "connection", " ">> \o attr("signal=", args.signal) \o <<" ">>
                              \o attr("from=", args.from) \o <<" ">> \o attr("to=", args.to) \o <<" ">>
                              \o attr("method=", args.method) \o <<"]", NL>>
    IN  IF Len(args.scene_path) = 0 \/ ~existsSync(d, fullPath) \/ action # "connect"
        THEN Threw(d, "SIGNAL_ERROR")
        ELSE Done(writeFileSync(d, fullPath, trimEnd(readFileSync(d, fullPath)) \o <<NL>> \o connectionText),
                  {[op |-> "write", path |-> fullPath]})

\* A signals tool whose disconnect removes every connection from the node.
handleSignalsBySource(action, args, d) ==
    LET fullPath == fullPathOf(ProjectPath, args.scene_path)
        lines == split(readFileSync(d, fullPath), NL)
        filtered == SelectSeq(lines, LAMBDA line :
                        ~(startsWith(trim(line), <<"[", "connection">>)
                            /\ includes(trim(line), attr("from=", args.from))))
    IN  IF Len(args.scene_path) = 0 \/ ~existsSync(d, fullPath) \/ action # "disconnect"
        THEN Threw(d, "SIGNAL_ERROR")
        ELSE IF Len(filtered) = Len(lines) THEN Threw(d, "SIGNAL_ERROR")
        ELSE Done(writeFileSync(d, fullPath, join(filtered, <<NL>>)),
                  {[op |-> "write", path |-> fullPath]})

handleSignals(action, args, d) ==
    LET scenePath == args.scene_path
        fullPath == fullPathOf(ProjectPath, scenePath)
        signal == args.signal
        from == args.from
        to == args.to
        method == args.method
        text == readFileSync(d, fullPath)
        missing == Len(signal) = 0 \/ Len(from) = 0 \/ Len(to) = 0 \/ Len(method) = 0
    IN  IF Len(scenePath) = 0 THEN Threw(d, "INVALID_ARGS")
        ELSE IF ~existsSync(d, fullPath) THEN Threw(d, "SCENE_ERROR")
        ELSE CASE action = "connect" ->
                    LET connections == parseSceneContent(text).connections
                        flagsAttr == IF args.flags[1]
                                     THEN <<" ", "flags=">> \o numberToString(args.flags[2])
                                     ELSE <<>>
                        connectionText == <<NL, "[", "connection", " ">> \o attr("signal=", signal)
                                              \o <<" ">> \o attr("from=", from)
                                              \o <<" ">> \o attr("to=", to)
                                              \o <<" ">> \o attr("method=", method)
                                              \o flagsAttr \o <<"]", NL>>
                    IN  IF missing THEN Threw(d, "INVALID_ARGS")
                        ELSE IF \E i \in 1..Len(connections) :
                                    /\ connections[i].signal = signal /\ connections[i].from = from
                                    /\ connections[i].to = to /\ connections[i].method = method
                        THEN Threw(d, "SIGNAL_ERROR")
                        ELSE Done(writeFileSync(d, fullPath, trimEnd(text) \o <<NL>> \o connectionText),
                                  {[op |-> "read", path |-> fullPath], [op |-> "write", path |-> fullPath]})
               [] action = "disconnect" ->
                    LET lines == split(text, NL)
                        filtered == SelectSeq(lines,
                                        LAMBDA line : staysConnected(line, signal, from, to, method))
                    IN  IF missing THEN Threw(d, "INVALID_ARGS")
                        ELSE IF Len(filtered) = Len(lines) THEN Threw(d, "SIGNAL_ERROR")
                        ELSE Done(writeFileSync(d, fullPath, join(filtered, <<NL>>)),
                                  {[op |-> "read", path |-> fullPath], [op |-> "write", path |-> fullPath]})
               [] OTHER -> Threw(d, "INVALID_ACTION")

(***************************************************************************)
(* SpecNodes and SpecSignals: any sequence of calls of the nodes tool, and  *)
(* of the signals tool, on one scene file.                                 *)
(***************************************************************************)
MaxSceneLines == 7

\* The scene file of the project, and a scene that is not there.
SceneFile == <<"s">>
ScenePaths == { SceneFile, <<"g">> }

headerLine == <<"[", "gd_scene", " ", "format=", "3", "]">>

typedNodeLine(name, parent) ==
    <<"[", "node", " ">> \o attr("name=", name) \o <<" ">> \o attr("type=", <<"T">>)
        \o (IF Len(parent) > 0 THEN <<" ">> \o attr("parent=", parent) ELSE <<>>) \o <<"]">>

\* A scene with its root alone, and one with a child of the root that has a
\* property and a connection to it.
InitialScenes ==
    { join(<<headerLine, typedNodeLine(<<"A">>, <<>>)>>, <<NL>>),
      join(<<headerLine, typedNodeLine(<<"A">>, <<>>),
             typedNodeLine(<<"B">>, <<".">>), <<"k", " ", "=", " ", "1">>,
             connectionLine(<<"A">>, <<"B">>)>>, <<NL>>) }

ToolNames == { <<"A">>, <<"B">> }

NoArgs ==
    [scene_path |-> <<>>, name |-> <<>>, new_name |-> <<>>, type |-> <<>>, parent |-> <<>>,
     property |-> <<>>, value |-> <<>>, signal |-> <<>>, from |-> <<>>, to |-> <<>>,
     method |-> <<>>, flags |-> Undefined]

\* The scene file as the project holds it.
sceneOf(d) == d[fullPathOf(ProjectPath, SceneFile)]

\* The record a call leaves in lastCall: its arguments, the scene before it
\* and what it did.
toolCall(tool, action, args, before, r) ==
    [tool |-> tool, action |-> action, args |-> args, before |-> before,
     threw |-> r.threw, code |-> r.code, accessed |-> r.accessed]

smallScene == Len(split(sceneOf(disk), NL)) <= MaxSceneLines

InitTools ==
    /\ pc = "tools"
    /\ \E scene \in InitialScenes : disk = (fullPathOf(ProjectPath, SceneFile) :> scene)
    /\ lastCall = toolCall("none", "none", NoArgs, <<>>, Done(disk, {}))
    /\ PathIdle /\ SceneIdle /\ CodecIdle

NodesAdd ==
    \E path \in {SceneFile}, name \in ToolNames, parent \in {<<>>, <<"A">>} :
        LET args == [NoArgs EXCEPT !.scene_path = path, !.name = name, !.type = <<"T">>,
                                   !.parent = parent]
            r == handleNodes("add", args, disk)
        IN  /\ smallScene
            /\ disk' = r.disk
            /\ lastCall' = toolCall("nodes", "add", args, sceneOf(disk), r)
            /\ UNCHANGED <<pc, pathVars, sceneVars, codecVars>>

NodesRemove ==
    \E path \in ScenePaths, name \in ToolNames :
        LET args == [NoArgs EXCEPT !.scene_path = path, !.name = name]
            r == handleNodes("remove", args, disk)
        IN  /\ smallScene
            /\ disk' = r.disk
            /\ lastCall' = toolCall("nodes", "remove", args, sceneOf(disk), r)
            /\ UNCHANGED <<pc, pathVars, sceneVars, codecVars>>

NodesRename ==
    \E path \in {SceneFile}, name \in ToolNames :
      \E newName \in ToolNames \ {name} :
        LET args == [NoArgs EXCEPT !.scene_path = path, !.name = name, !.new_name = newName]
            r == handleNodes("rename", args, disk)
        IN  /\ smallScene
            /\ disk' = r.disk
            /\ lastCall' = toolCall("nodes", "rename", args, sceneOf(disk), r)
            /\ UNCHANGED <<pc, pathVars, sceneVars, codecVars>>

NodesSetProperty ==
    \E path \in {SceneFile}, name \in ToolNames :
        LET args == [NoArgs EXCEPT !.scene_path = path, !.name = name,
                                   !.property = <<"k">>, !.value = <<"2">>]
            r == handleNodes("set_property", args, disk)
        IN  /\ smallScene
            /\ disk' = r.disk
            /\ lastCall' = toolCall("nodes", "set_property", args, sceneOf(disk), r)
            /\ UNCHANGED <<pc, pathVars, sceneVars, codecVars>>

SignalsConnect ==
    \E path \in {SceneFile}, from \in ToolNames, to \in ToolNames,
       flags \in {Undefined, <<TRUE, 1>>} :
        LET args == [NoArgs EXCEPT !.scene_path = path, !.signal = <<"s">>, !.from = from,
                                   !.to = to, !.method = <<"m">>, !.flags = flags]
            r == handleSignals("connect", args, disk)
        IN  /\ smallScene
            /\ disk' = r.disk
            /\ lastCall' = toolCall("signals", "connect", args, sceneOf(disk), r)
            /\ UNCHANGED <<pc, pathVars, sceneVars, codecVars>>

SignalsDisconnect ==
    \E path \in {SceneFile}, from \in ToolNames, to \in ToolNames :
        LET args == [NoArgs EXCEPT !.scene_path = path, !.signal = <<"s">>, !.from = from,
                                   !.to = to, !.method = <<"m">>]
            r == handleSignals("disconnect", args, disk)
        IN  /\ smallScene
            /\ disk' = r.disk
            /\ lastCall' = toolCall("signals", "disconnect", args, sceneOf(disk), r)
            /\ UNCHANGED <<pc, pathVars, sceneVars, codecVars>>

NextNodes ==
    \/ NodesAdd
    \/ NodesRemove
    \/ NodesRename
    \/ NodesSetProperty

SpecNodes == InitTools /\ [][NextNodes]_vars

NextSignals == SignalsConnect \/ SignalsDisconnect

SpecSignals == InitTools /\ [][NextSignals]_vars

\* No two nodes of the document have the same parent and name.
nodesAreDistinct(text) ==
    LET nodes == parseSceneContent(text).nodes
    IN  \A i, j \in 1..Len(nodes) :
            (nodes[i].name = nodes[j].name /\ nodes[i].parent = nodes[j].parent) => i = j

\* C11: after any sequence of nodes add, remove, rename and set_property
\* calls the scene has at most one node for each pair of parent and name.
C11_OneNodePerParentAndName == nodesAreDistinct(sceneOf(disk))

\* findNode(parseSceneContent(text), name) found a node.
hasNode(text, name) ==
    \E i \in 1..Len(parseSceneContent(text).nodes) : parseSceneContent(text).nodes[i].name = name

\* C12: nodes set_property, remove and rename on a scene that has no node of
\* the given name throw, and leave the text of the scene file as it was.
C12_AbsentNodeIsRejected ==
    (/\ lastCall.tool = "nodes"
     /\ lastCall.action \in {"set_property", "remove", "rename"}
     /\ lastCall.args.scene_path = SceneFile
     /\ ~hasNode(lastCall.before, lastCall.args.name)) =>
        /\ lastCall.threw
        /\ sceneOf(disk) = lastCall.before

\* The index of the section header the i-th line stands under, 0 if none.
headerOf(lines, i) ==
    LET above == { j \in 1..(i - 1) : startsWith(trim(lines[j]), <<"[">>) }
    IN  IF above = {} THEN 0 ELSE CHOOSE j \in above : \A m \in above : m <= j

\* The lines of the text that the reader takes as an assignment of the key
\* to a node of the given name.
assignmentLines(text, nodeName, key) ==
    LET lines == linesOf(text)
    IN  { i \in 1..Len(lines) :
            /\ ~startsWith(trim(lines[i]), <<"[">>)
            /\ matchProperty(trim(lines[i]))[1]
            /\ matchProperty(trim(lines[i]))[2] = key
            /\ headerOf(lines, i) > 0
            /\ isNodeDeclaration(lines[headerOf(lines, i)])
            /\ matchAttr(trim(lines[headerOf(lines, i)]), "name=") = <<TRUE, nodeName>> }

\* The node declarations of the text with the given name.
declarationsOf(text, nodeName) ==
    { i \in 1..Len(linesOf(text)) :
        /\ isNodeDeclaration(linesOf(text)[i])
        /\ matchAttr(trim(linesOf(text)[i]), "name=") = <<TRUE, nodeName>> }

\* C13: setProperty on the one node of the name leaves exactly one assignment
\* of the key in the node's section, with the new value; it stands where an
\* assignment of the key stood before (written key = value or key=value),
\* and no line is added in that case.
C13_SetPropertyReplacesInPlace ==
    (/\ patch.op = "set"
     /\ patch.property = <<"k">> /\ isSingleLine(patch.value)
     /\ Cardinality(declarationsOf(content, patch.nodeName)) = 1) =>
        LET before == assignmentLines(content, patch.nodeName, patch.property)
            after == assignmentLines(patched, patch.nodeName, patch.property)
        IN  /\ Cardinality(after) = 1
            /\ \A i \in after :
                   matchProperty(trim(linesOf(patched)[i])) = <<TRUE, patch.property, patch.value>>
            /\ before # {} =>
                   /\ Len(linesOf(patched)) = Len(linesOf(content))
                   /\ after \subseteq before

\* C14 as stated: removeNode returns the text as it was whenever the text
\* has no node of the name.
C14_RemoveAbsentIsNoOpAsStated ==
    (patch.op = "remove" /\ declarationsOf(content, patch.nodeName) = {}) => patched = content

\* The connections of the text that start or end at the node.
connectionsOf(text, nodeName) ==
    { i \in 1..Len(linesOf(text)) :
        /\ isConnection(linesOf(text)[i])
        /\ \/ matchAttr(trim(linesOf(text)[i]), "from=") = <<TRUE, nodeName>>
           \/ matchAttr(trim(linesOf(text)[i]), "to=") = <<TRUE, nodeName>> }

\* C14: removeNode returns the text as it was when the text has no node of
\* the name and no connection from or to the name.
C14_RemoveAbsentIsNoOp ==
    (/\ patch.op = "remove"
     /\ declarationsOf(content, patch.nodeName) = {}
     /\ connectionsOf(content, patch.nodeName) = {}) => patched = content

\* A text with other nodes and a connection between them, after the removal
\* of a name it does not have.
C14_Witness ==
    /\ patch.op = "remove"
    /\ declarationsOf(content, patch.nodeName) = {}
    /\ connectionsOf(content, patch.nodeName) = {}
    /\ \E i \in 1..Len(linesOf(content)) : isNodeDeclaration(linesOf(content)[i])
    /\ \E i \in 1..Len(linesOf(content)) : isConnection(linesOf(content)[i])
    /\ patched = content

\* C15: after renameNode(text, old, new) every connection has each whole
\* segment old of its from and to paths replaced by new, a path that is old
\* itself included.
C15_RenameRewritesConnections ==
    patch.op = "rename" =>
        /\ Len(linesOf(patched)) = Len(linesOf(content))
        /\ \A i \in 1..Len(linesOf(content)) :
               isConnection(linesOf(content)[i]) =>
                   LET before == trim(linesOf(content)[i])
                       after == trim(linesOf(patched)[i])
                   IN  /\ matchAttr(after, "from=") =
                              <<TRUE, renamedPath(matchAttr(before, "from=")[2],
                                                  patch.nodeName, patch.newName)>>
                       /\ matchAttr(after, "to=") =
                              <<TRUE, renamedPath(matchAttr(before, "to=")[2],
                                                  patch.nodeName, patch.newName)>>

(***************************************************************************)
(* The project settings: parseProjectSettingsContent, getSetting and       *)
(* setSettingInContent of helpers/project-settings.ts.                     *)
(***************************************************************************)

\* /^\[(.+)\]$/ on a trimmed line: the name between the brackets.
matchSection(line) ==
    IF Len(line) >= 3 /\ line[1] = "[" /\ line[Len(line)] = "]"
    THEN <<TRUE, SubSeq(line, 2, Len(line) - 1)>>
    ELSE Undefined

\* /^([^=]+)=(.*)$/ on a trimmed line: the key before the first "=" and the
\* value after it, both trimmed.
matchKeyValue(line) ==
    IF \E i \in 2..Len(line) : line[i] = "="
    THEN LET i == CHOOSE k \in 1..Len(line) :
                      line[k] = "=" /\ \A j \in 1..(k - 1) : line[j] # "="
         IN  IF i >= 2
             THEN <<TRUE, trim(SubSeq(line, 1, i - 1)), trim(SubSeq(line, i + 1, Len(line)))>>
             ELSE Undefined
    ELSE Undefined

\* A Map with no entry, and Map.set.
EmptyMap == [x \in {} |-> x]

mapSet(map, key, value) == (key :> value) @@ map

GlobalSection == <<>>

RECURSIVE parseSettingsLoop(_, _, _, _)
parseSettingsLoop(lines, i, sections, currentSection) ==
    IF i > Len(lines) THEN sections
    ELSE LET line == trim(lines[i])
             sectionMatch == matchSection(line)
             kvMatch == matchKeyValue(line)
         IN  IF line = <<>> \/ startsWith(line, <<";">>)
             THEN parseSettingsLoop(lines, i + 1, sections, currentSection)
             ELSE IF sectionMatch[1]
             THEN parseSettingsLoop(lines, i + 1,
                      IF sectionMatch[2] \in DOMAIN sections THEN sections
                      ELSE mapSet(sections, sectionMatch[2], EmptyMap),
                      sectionMatch[2])
             ELSE IF kvMatch[1]
             THEN parseSettingsLoop(lines, i + 1,
                      mapSet(sections, currentSection,
                             mapSet(sections[currentSection], kvMatch[2], kvMatch[3])),
                      currentSection)
             ELSE parseSettingsLoop(lines, i + 1, sections, currentSection)

parseProjectSettingsContent(text) ==
    [sections |-> parseSettingsLoop(split(text, NL), 1,
                                    mapSet(EmptyMap, GlobalSection, EmptyMap), GlobalSection),
     raw |-> text]

\* parts.slice(1).join('/')
keyOf(parts) == join(Tail(parts), <<"/">>)

\* A getSetting that looks a path of one segment up in the global section.
getSettingInGlobalSection(settings, path) ==
    LET parts == split(path, "/")
        section == IF Len(parts) >= 2 THEN parts[1] ELSE GlobalSection
        key == IF Len(parts) >= 2 THEN keyOf(parts) ELSE path
    IN  IF section \in DOMAIN settings.sections /\ key \in DOMAIN settings.sections[section]
        THEN <<TRUE, settings.sections[section][key]>>
        ELSE Undefined

getSetting(settings, path) ==
    LET parts == split(path, "/")
    IN  IF Len(parts) >= 2
        THEN LET section == parts[1]
                 key == keyOf(parts)
             IN  IF section \in DOMAIN settings.sections
                      /\ key \in DOMAIN settings.sections[section]
                 THEN <<TRUE, settings.sections[section][key]>>
                 ELSE Undefined
        ELSE Undefined

\* `${key}=${value}`
settingLine(key, value) == key \o <<"=">> \o value

RECURSIVE setSettingLoop(_, _, _, _, _, _)
setSettingLoop(lines, i, sectionHeader, key, value, st) ==
    IF i > Len(lines) THEN st
    ELSE LET trimmed == trim(lines[i])
             isHeader == startsWith(trimmed, <<"[">>) /\ endsWith(trimmed, <<"]">>)
             leaving == isHeader /\ st.inSection /\ ~st.keySet
             inSection == IF isHeader THEN trimmed = sectionHeader ELSE st.inSection
             replaces == inSection /\ startsWith(trimmed, key \o <<"=">>)
         IN  setSettingLoop(lines, i + 1, sectionHeader, key, value,
                 [result |-> (IF leaving THEN Append(st.result, settingLine(key, value))
                              ELSE st.result)
                                 \o <<IF replaces THEN settingLine(key, value) ELSE lines[i]>>,
                  inSection |-> inSection,
                  keySet |-> st.keySet \/ leaving \/ replaces,
                  sectionFound |-> st.sectionFound \/ (isHeader /\ inSection)])

setSettingInContent(text, path, value) ==
    LET parts == split(path, "/")
    IN  IF Len(parts) < 2 THEN text
        ELSE LET section == parts[1]
                 key == keyOf(parts)
                 sectionHeader == <<"[">> \o section \o <<"]">>
                 st == setSettingLoop(split(text, NL), 1, sectionHeader, key, value,
                                      [result |-> <<>>, inSection |-> FALSE,
                                       keySet |-> FALSE, sectionFound |-> FALSE])
                 last == IF st.inSection /\ ~st.keySet
                         THEN Append(st.result, settingLine(key, value))
                         ELSE st.result
                 result == IF ~st.sectionFound
                           THEN last \o <<<<>>, sectionHeader, settingLine(key, value)>>
                           ELSE last
             IN  join(result, <<NL>>)

(***************************************************************************)
(* The settings specification: a settings text, then one getSetting or     *)
(* setSettingInContent call on it.                                         *)
(***************************************************************************)

MaxSettingLines == 3

\* Section headers, assignments with and without spaces, a comment that
\* looks like an assignment, an empty line.
SettingLines ==
    { <<"[", "S", "]">>,
      <<"[", "T", "]">>,
      <<"K", "=", "1">>,
      <<"J", "=", "1">>,
      <<" ", "K", " ", "=", " ", "1">>,
      <<";", "K", "=", "1">>,
      <<>> }

SettingsTexts == { join(ls, <<NL>>) : ls \in SeqsUpTo(SettingLines, MaxSettingLines) }

\* Paths of no, one, two and three segments, the empty section included.
SettingPaths ==
    { <<>>, <<"K">>, <<"S">>, <<"S", "/", "K">>, <<"T", "/", "K">>, <<"/", "K">>,
      <<"S", "/", "J", "/", "K">> }

SettingValues == { <<"2">> }

NoSetting == [op |-> "none", path |-> <<>>, value |-> <<>>]

InitSettings ==
    /\ pc = "call"
    /\ content \in SettingsTexts
    /\ patch = NoSetting
    /\ patched = Unused
    /\ basePath = Unused /\ userPath = Unused /\ impl = Unused
    /\ outcome = Unused
    /\ FsIdle
    /\ CodecIdle

GetSetting ==
    \E path \in SettingPaths :
        /\ pc = "call"
        /\ pc' = "done"
        /\ patch' = [NoSetting EXCEPT !.op = "get", !.path = path]
        /\ outcome' = getSetting(parseProjectSettingsContent(content), path)
        /\ UNCHANGED <<content, patched, basePath, userPath, impl, fsVars, codecVars>>

SetSetting ==
    \E path \in SettingPaths, value \in SettingValues :
        /\ pc = "call"
        /\ pc' = "done"
        /\ patch' = [NoSetting EXCEPT !.op = "set", !.path = path, !.value = value]
        /\ patched' = setSettingInContent(content, path, value)
        /\ UNCHANGED <<content, pathVars, fsVars, codecVars>>

NextSettings == GetSetting \/ SetSetting

SpecSettings == InitSettings /\ [][NextSettings]_vars

\* The section each line of a settings text is read in.
RECURSIVE sectionAt(_, _)
sectionAt(lines, i) ==
    IF i = 0 THEN GlobalSection
    ELSE LET line == trim(lines[i])
         IN  IF line # <<>> /\ ~startsWith(line, <<";">>) /\ matchSection(line)[1]
             THEN matchSection(line)[2]
             ELSE sectionAt(lines, i - 1)

\* The lines of a settings text that the reader takes as an assignment of
\* the key in the section.
settingLinesOf(text, section, key) ==
    { i \in 1..Len(split(text, NL)) :
        LET line == trim(split(text, NL)[i])
        IN  /\ line # <<>>
            /\ ~startsWith(line, <<";">>)
            /\ ~matchSection(line)[1]
            /\ matchKeyValue(line)[1]
            /\ matchKeyValue(line)[2] = key
            /\ sectionAt(split(text, NL), i) = section }

\* The lines of a settings text that the reader takes as the header of the
\* section.
sectionHeadersOf(text, section) ==
    { i \in 1..Len(split(text, NL)) :
        LET line == trim(split(text, NL)[i])
        IN  /\ ~startsWith(line, <<";">>)
            /\ matchSection(line) = <<TRUE, section>> }

\* C16: after set(text, "S/K", v) exactly one line assigns K in section S,
\* it assigns v, and the text has no second [S] header.
C16_SetLeavesOneAssignment ==
    (patch.op = "set" /\ Len(split(patch.path, "/")) >= 2) =>
        LET section == split(patch.path, "/")[1]
            key == keyOf(split(patch.path, "/"))
        IN  /\ Cardinality(settingLinesOf(patched, section, key)) = 1
            /\ \A i \in settingLinesOf(patched, section, key) :
                   matchKeyValue(trim(split(patched, NL)[i]))[3] = patch.value
            /\ Cardinality(sectionHeadersOf(patched, section)) <= 1

\* C17: a path of one segment is inert: getSetting answers undefined, also
\* when the global section has the key, and setSettingInContent returns the
\* text as it was.
C17_SingleSegmentIsInert ==
    Len(split(patch.path, "/")) < 2 =>
        /\ patch.op = "get" => outcome = Undefined
        /\ patch.op = "set" => patched = content

\* getSetting was asked for a key that the global section has.
C17_Witness ==
    /\ patch.op = "get"
    /\ patch.path = <<"K">>
    /\ <<"K">> \in DOMAIN parseProjectSettingsContent(content).sections[GlobalSection]
    /\ outcome = Undefined

\* The connections of a scene that have the signal, source, target and
\* method, by their place among the connections the reader finds.
sameConnections(text, signal, from, to, method) ==
    { i \in 1..Len(parseSceneContent(text).connections) :
        LET c == parseSceneContent(text).connections[i]
        IN  c.signal = signal /\ c.from = from /\ c.to = to /\ c.method = method }

\* C18: after any sequence of signals connect and disconnect calls no two
\* connections of the scene have the same signal, source, target and method,
\* and a connect of a connection the scene already has throws and leaves the
\* scene file as it was.
C18_ConnectionsAreDistinct ==
    /\ \A i \in 1..Len(parseSceneContent(sceneOf(disk)).connections) :
           LET c == parseSceneContent(sceneOf(disk)).connections[i]
           IN  sameConnections(sceneOf(disk), c.signal, c.from, c.to, c.method) = {i}
    /\ (/\ lastCall.tool = "signals"
        /\ lastCall.action = "connect"
        /\ sameConnections(lastCall.before, lastCall.args.signal, lastCall.args.from,
                           lastCall.args.to, lastCall.args.method) # {})
           => /\ lastCall.threw
              /\ lastCall.code = "SIGNAL_ERROR"
              /\ lastCall.accessed = {}
              /\ sceneOf(disk) = lastCall.before

\* A connect of a connection that the scene has next to another one.
C18_Witness ==
    /\ lastCall.tool = "signals"
    /\ lastCall.action = "connect"
    /\ sameConnections(lastCall.before, lastCall.args.signal, lastCall.args.from,
                       lastCall.args.to, lastCall.args.method) # {}
    /\ Len(parseSceneContent(sceneOf(disk)).connections) >= 2
    /\ lastCall.threw

\* A line that is a connection with the signal, source, target and method.
isConnectionOf(line, args) ==
    /\ isConnection(line)
    /\ matchAttr(trim(line), "signal=") = <<TRUE, args.signal>>
    /\ matchAttr(trim(line), "from=") = <<TRUE, args.from>>
    /\ matchAttr(trim(line), "to=") = <<TRUE, args.to>>
    /\ matchAttr(trim(line), "method=") = <<TRUE, args.method>>

\* C19: signals disconnect removes the connection lines that have the signal,
\* source, target and method and keeps every other line as it was, in order;
\* when no line has them it throws and leaves the scene file as it was.
C19_DisconnectRemovesExactly ==
    (lastCall.tool = "signals" /\ lastCall.action = "disconnect") =>
        IF \E i \in 1..Len(linesOf(lastCall.before)) :
               isConnectionOf(linesOf(lastCall.before)[i], lastCall.args)
        THEN /\ ~lastCall.threw
             /\ linesOf(sceneOf(disk)) =
                    SelectSeq(linesOf(lastCall.before),
                              LAMBDA line : ~isConnectionOf(line, lastCall.args))
        ELSE /\ lastCall.threw
             /\ lastCall.code = "SIGNAL_ERROR"
             /\ lastCall.accessed = {}
             /\ sceneOf(disk) = lastCall.before

\* A disconnect that removed one of two connections from the same node.
C19_Witness ==
    /\ lastCall.tool = "signals"
    /\ lastCall.action = "disconnect"
    /\ ~lastCall.threw
    /\ Len(parseSceneContent(lastCall.before).connections) >= 2
    /\ Len(parseSceneContent(sceneOf(disk)).connections)
           = Len(parseSceneContent(lastCall.before).connections) - 1
    /\ \E i \in 1..Len(parseSceneContent(sceneOf(disk)).connections) :
           parseSceneContent(sceneOf(disk)).connections[i].from = lastCall.args.from

(***************************************************************************)
(* The parse specification: a scene text with complete and incomplete      *)
(* declarations, then one parseSceneContent call on it.                    *)
(***************************************************************************)

MaxParseLines == 3

declaration(kind, attributes) == <<"[", kind>> \o attributes \o <<"]">>

\* Each kind of declaration with its required attributes and with one of
\* them missing, a commented declaration, the header of the scene, a
\* property written in both ways and with two values.
ParseLinePool ==
    { nodeLine(<<"A">>),
      declaration("node", <<" ">> \o attr("type=", <<"T">>)),
      declaration("ext_resource", <<" ">> \o attr("type=", <<"T">>) \o <<" ">>
                                      \o attr("path=", <<"p">>) \o <<" ">> \o attr("id=", <<"1">>)),
      declaration("ext_resource", <<" ">> \o attr("type=", <<"T">>) \o <<" ">>
                                      \o attr("path=", <<"p">>) \o <<" ">> \o attr("uid=", <<"1">>)),
      declaration("sub_resource", <<" ">> \o attr("type=", <<"T">>) \o <<" ">> \o attr("id=", <<"1">>)),
      declaration("sub_resource", <<" ">> \o attr("type=", <<"T">>)),
      connectionLine(<<"A">>, <<"B">>),
      declaration("connection", <<" ">> \o attr("signal=", <<"s">>) \o <<" ">>
                                    \o attr("from=", <<"A">>) \o <<" ">> \o attr("to=", <<"B">>)),
      <<";">> \o nodeLine(<<"B">>),
      headerLine,
      <<"k", " ", "=", " ", "1">>,
      <<"k", "=", "2">> }

ParseTexts == { join(ls, <<NL>>) : ls \in SeqsUpTo(ParseLinePool, MaxParseLines) }

InitParse ==
    /\ pc = "call"
    /\ content \in ParseTexts
    /\ patch = NoPatch
    /\ patched = Unused
    /\ PathIdle /\ FsIdle /\ CodecIdle

ParseSceneContent ==
    /\ pc = "call"
    /\ pc' = "done"
    /\ patch' = [NoPatch EXCEPT !.op = "parse"]
    /\ patched' = parseSceneContent(content)
    /\ UNCHANGED <<content, pathVars, fsVars, codecVars>>

NextParse == ParseSceneContent

SpecParse == InitParse /\ [][NextParse]_vars

\* The attributes a declaration of each kind has to have.
RequiredAttributes ==
    [node |-> {"name="},
     ext_resource |-> {"type=", "path=", "id="},
     sub_resource |-> {"type=", "id="},
     connection |-> {"signal=", "from=", "to=", "method="}]

\* The i-th line, trimmed, is read: it is neither empty nor a comment.
isRead(text, i) ==
    trim(linesOf(text)[i]) # <<>> /\ ~startsWith(trim(linesOf(text)[i]), <<";">>)

isHeaderLine(text, i) == isRead(text, i) /\ startsWith(trim(linesOf(text)[i]), <<"[">>)

\* The line spells the attribute: a space, the key, a quote.
declares(line, key) ==
    \E i \in 1..(Len(line) - 2) : line[i] = " " /\ line[i + 1] = key /\ line[i + 2] = Q

\* The lines of the text, in order, that declare an entity of the kind with
\* all its required attributes.
completeDeclarations(text, kind) ==
    SelectSeq([i \in 1..Len(linesOf(text)) |-> i],
              LAMBDA i : /\ isRead(text, i)
                         /\ startsWith(trim(linesOf(text)[i]), <<"[", kind>>)
                         /\ \A key \in RequiredAttributes[kind] :
                                declares(trim(linesOf(text)[i]), key))

\* The keys of the property lines between the h-th line and the next header.
keysAfter(text, h) ==
    { matchProperty(trim(linesOf(text)[j]))[2] :
        j \in { m \in (h + 1)..Len(linesOf(text)) :
                  /\ isRead(text, m)
                  /\ ~isHeaderLine(text, m)
                  /\ matchProperty(trim(linesOf(text)[m]))[1]
                  /\ \A x \in (h + 1)..(m - 1) : ~isHeaderLine(text, x) } }

\* C20: parseSceneContent gives one entry for each declaration that has its
\* required attributes, in the order of the text and with the properties
\* that follow it, and none for a declaration that misses one: an
\* ext_resource without type, path or id, a sub_resource without type or
\* id, a node without name, a connection without signal, from, to or method.
C20_IncompleteDeclarationsAreSkipped ==
    patch.op = "parse" =>
        LET line(i) == trim(linesOf(content)[i])
            nodesAt == completeDeclarations(content, "node")
            extAt == completeDeclarations(content, "ext_resource")
            subAt == completeDeclarations(content, "sub_resource")
            connectionsAt == completeDeclarations(content, "connection")
        IN  /\ Len(patched.nodes) = Len(nodesAt)
            /\ \A k \in 1..Len(nodesAt) :
                   /\ patched.nodes[k].name = matchAttr(line(nodesAt[k]), "name=")[2]
                   /\ DOMAIN patched.nodes[k].properties = keysAfter(content, nodesAt[k])
            /\ Len(patched.extResources) = Len(extAt)
            /\ \A k \in 1..Len(extAt) :
                   /\ patched.extResources[k].type = matchAttr(line(extAt[k]), "type=")[2]
                   /\ patched.extResources[k].path = matchAttr(line(extAt[k]), "path=")[2]
                   /\ patched.extResources[k].id = matchAttr(line(extAt[k]), "id=")[2]
            /\ Len(patched.subResources) = Len(subAt)
            /\ \A k \in 1..Len(subAt) :
                   /\ patched.subResources[k].type = matchAttr(line(subAt[k]), "type=")[2]
                   /\ patched.subResources[k].id = matchAttr(line(subAt[k]), "id=")[2]
                   /\ DOMAIN patched.subResources[k].properties = keysAfter(content, subAt[k])
            /\ Len(patched.connections) = Len(connectionsAt)
            /\ \A k \in 1..Len(connectionsAt) :
                   /\ patched.connections[k].signal = matchAttr(line(connectionsAt[k]), "signal=")[2]
                   /\ patched.connections[k].from = matchAttr(line(connectionsAt[k]), "from=")[2]
                   /\ patched.connections[k].to = matchAttr(line(connectionsAt[k]), "to=")[2]
                   /\ patched.connections[k].method = matchAttr(line(connectionsAt[k]), "method=")[2]

\* A text with a complete node, then an ext_resource that has a uid but no
\* id, then a complete connection: the parse has the node and the connection
\* and no resource.
C20_Witness ==
    /\ patch.op = "parse"
    /\ content = join(<<nodeLine(<<"A">>),
                        declaration("ext_resource", <<" ">> \o attr("type=", <<"T">>) \o <<" ">>
                                        \o attr("path=", <<"p">>) \o <<" ">> \o attr("uid=", <<"1">>)),
                        connectionLine(<<"A">>, <<"B">>)>>, <<NL>>)
    /\ Len(patched.nodes) = 1
    /\ Len(patched.extResources) = 0
    /\ Len(patched.connections) = 1

(***************************************************************************)
(* The nodes tool with its awaits: each call checks its arguments and the  *)
(* file, then awaits readFile, then awaits writeSceneAsync. Calls of       *)
(* several callers interleave at these two steps.                          *)
(***************************************************************************)

\* A resolveScenePath that resolves every scene path to the one scene file.
resolveSceneFile(projectPath, scenePath) == fullPathOf(projectPath, SceneFile)

resolveScenePath(projectPath, scenePath) == fullPathOf(projectPath, scenePath)

\* await writeSceneAsync(fullPath, updated): the file gets the text.
writeSceneAsync(d, filePath, text) == writeFileSync(d, filePath, text)

\* The two callers.
Calls == {1, 2}

OtherSceneFile == <<"g">>

AsyncPaths == { SceneFile, OtherSceneFile }

\* The calls the callers make: add of a node the scenes may have and of one
\* they do not have, remove, rename and set_property, on either file.
AsyncCalls ==
    { [action |-> "add", args |-> [NoArgs EXCEPT !.scene_path = path, !.name = name,
                                                 !.type = <<"T">>]] :
        path \in AsyncPaths, name \in { <<"B">>, <<"C">> } }
    \cup { [action |-> "remove", args |-> [NoArgs EXCEPT !.scene_path = path, !.name = <<"B">>]] :
             path \in AsyncPaths }
    \cup { [action |-> "rename", args |-> [NoArgs EXCEPT !.scene_path = path, !.name = <<"A">>,
                                                         !.new_name = <<"C">>]] :
             path \in AsyncPaths }
    \cup { [action |-> "set_property", args |-> [NoArgs EXCEPT !.scene_path = path, !.name = <<"A">>,
                                                               !.property = <<"k">>,
                                                               !.value = <<"2">>]] :
             path \in AsyncPaths }

NoResult == [threw |-> FALSE, code |-> "pending"]

InitAsync ==
    /\ disk \in [{ fullPathOf(ProjectPath, path) : path \in AsyncPaths } -> InitialScenes]
    /\ origin = disk
    /\ patch \in [Calls -> AsyncCalls]
    /\ pc = [c \in Calls |-> "called"]
    /\ content = [c \in Calls |-> <<>>]
    /\ patched = [c \in Calls |-> <<>>]
    /\ lastCall = [c \in Calls |-> NoResult]
    /\ steps = <<>>
    /\ datum = Unused
    /\ PathIdle

\* The call up to its first await: the checks of the arguments and of the
\* file, which throw, or the start of the read.
AsyncCall ==
    \E c \in Calls :
        LET r == handleNodes(patch[c].action, patch[c].args, disk)
            throws == r.threw /\ r.code \in {"INVALID_ARGS", "SCENE_ERROR", "INVALID_ACTION"}
        IN  /\ pc[c] = "called"
            /\ pc' = [pc EXCEPT ![c] = IF throws THEN "done" ELSE "reading"]
            /\ lastCall' = [lastCall EXCEPT ![c] = IF throws THEN [threw |-> TRUE, code |-> r.code]
                                                   ELSE @]
            /\ steps' = Append(steps, c)
            /\ UNCHANGED <<disk, origin, patch, content, patched, datum, pathVars>>

\* await readFile(fullPath) returns, and the call runs up to its next await:
\* it throws, or has the updated text and starts the write.
AsyncRead ==
    \E c \in Calls :
        LET fullPath == resolveScenePath(ProjectPath, patch[c].args.scene_path)
            text == readFileSync(disk, fullPath)
            own == fullPathOf(ProjectPath, patch[c].args.scene_path)
            r == handleNodes(patch[c].action, patch[c].args, (own :> text))
        IN  /\ pc[c] = "reading"
            /\ content' = [content EXCEPT ![c] = text]
            /\ pc' = [pc EXCEPT ![c] = IF r.threw THEN "done" ELSE "writing"]
            /\ patched' = [patched EXCEPT ![c] = IF r.threw THEN @ ELSE r.disk[own]]
            /\ lastCall' = [lastCall EXCEPT ![c] = IF r.threw THEN [threw |-> TRUE, code |-> r.code]
                                                   ELSE @]
            /\ steps' = Append(steps, c)
            /\ UNCHANGED <<disk, origin, patch, datum, pathVars>>

\* await writeSceneAsync(fullPath, updated) returns, and the call returns
\* formatSuccess.
AsyncWrite ==
    \E c \in Calls :
        /\ pc[c] = "writing"
        /\ disk' = writeSceneAsync(disk, resolveScenePath(ProjectPath, patch[c].args.scene_path),
                                   patched[c])
        /\ pc' = [pc EXCEPT ![c] = "done"]
        /\ lastCall' = [lastCall EXCEPT ![c] = [threw |-> FALSE, code |-> ""]]
        /\ steps' = Append(steps, c)
        /\ UNCHANGED <<origin, patch, content, patched, datum, pathVars>>

NextAsync == AsyncCall \/ AsyncRead \/ AsyncWrite

SpecAsync == InitAsync /\ [][NextAsync]_vars

\* The file a call names.
targetOf(c) == fullPathOf(ProjectPath, patch[c].args.scene_path)

\* The call as it runs with no other call: on the files as they were.
alone(c) == handleNodes(patch[c].action, patch[c].args, origin)

allDone == \A c \in Calls : pc[c] = "done"

\* C21: when every call has returned, a file that one call alone names is
\* as that call leaves it when it runs with no other call, and the call has
\* thrown or returned as it does then.
C21_IndependentCallsDoNotInterfere ==
    allDone =>
        \A c \in Calls :
            (\A d \in Calls \ {c} : targetOf(d) # targetOf(c)) =>
                /\ disk[targetOf(c)] = alone(c).disk[targetOf(c)]
                /\ lastCall[c].threw = alone(c).threw

\* Two calls on different files that both wrote, the second one reading and
\* writing between the read and the write of the first.
C21_Witness ==
    /\ allDone
    /\ targetOf(1) # targetOf(2)
    /\ ~lastCall[1].threw /\ ~lastCall[2].threw
    /\ disk[targetOf(1)] # origin[targetOf(1)]
    /\ disk[targetOf(2)] # origin[targetOf(2)]
    /\ steps = <<1, 1, 2, 2, 2, 1>>

\* C30: when two add calls with different names on the same file have both
\* returned without throwing, the file has both nodes.
C30_NoAddIsLost ==
    \A c, d \in Calls :
        (/\ allDone
         /\ c # d
         /\ patch[c].action = "add" /\ patch[d].action = "add"
         /\ targetOf(c) = targetOf(d)
         /\ patch[c].args.name # patch[d].args.name
         /\ ~lastCall[c].threw /\ ~lastCall[d].threw)
            => /\ hasNode(disk[targetOf(c)], patch[c].args.name)
               /\ hasNode(disk[targetOf(c)], patch[d].args.name)

\* The i-th line is the declaration of a node of the name or stands in its
\* section.
inSectionOf(lines, i, nodeName) ==
    LET h == IF startsWith(trim(lines[i]), <<"[">>) THEN i ELSE headerOf(lines, i)
    IN  /\ h > 0
        /\ isNodeDeclaration(lines[h])
        /\ matchAttr(trim(lines[h]), "name=") = <<TRUE, nodeName>>

\* The path has the name as one of its segments.
hasSegment(path, nodeName) ==
    \E k \in 1..Len(split(path, "/")) : split(path, "/")[k] = nodeName

\* The line is a node declaration whose parent path, or a connection whose
\* from or to path, goes through the node.
refersTo(line, nodeName) ==
    LET trimmed == trim(line)
        through(key) == /\ matchAttr(trimmed, key)[1]
                        /\ hasSegment(matchAttr(trimmed, key)[2], nodeName)
    IN  \/ isNodeDeclaration(line) /\ through("parent=")
        \/ isConnection(line) /\ (through("from=") \/ through("to="))

RECURSIVE isSubsequence(_, _)
isSubsequence(a, b) ==
    IF Len(a) = 0 THEN TRUE
    ELSE IF Len(b) = 0 THEN FALSE
    ELSE IF a[1] = b[1] THEN isSubsequence(Tail(a), Tail(b))
    ELSE isSubsequence(a, Tail(b))

\* The lines of the text, in order, that are neither in the section of a
\* node of the name nor a reference to it.
unrelatedLines(text, nodeName) ==
    LET lines == linesOf(text)
        kept == SelectSeq([i \in 1..Len(lines) |-> i],
                          LAMBDA i : ~inSectionOf(lines, i, nodeName)
                                       /\ ~refersTo(lines[i], nodeName))
    IN  [k \in 1..Len(kept) |-> lines[kept[k]]]

\* C22: removeNode, renameNode and setProperty leave every line that is
\* neither in the section of the node they name nor a parent or connection
\* reference to it as it was: the output has these lines, unchanged and in
\* their order.
C22_PatchesAreMinimal ==
    patch.op \in {"remove", "rename", "set"} =>
        isSubsequence(unrelatedLines(content, patch.nodeName), linesOf(patched))

\* The property lines between the h-th line and the next header.
propertyLinesAfter(text, h) ==
    { m \in (h + 1)..Len(linesOf(text)) :
        /\ isRead(text, m)
        /\ ~isHeaderLine(text, m)
        /\ matchProperty(trim(linesOf(text)[m]))[1]
        /\ \A x \in (h + 1)..(m - 1) : ~isHeaderLine(text, x) }

\* The properties of the section that the h-th line opens: each key with
\* the value of its last line.
propertiesAfter(text, h) ==
    [key \in keysAfter(text, h) |->
        LET of == { m \in propertyLinesAfter(text, h) :
                      matchProperty(trim(linesOf(text)[m]))[2] = key }
            last == CHOOSE m \in of : \A x \in of : x <= m
        IN  matchProperty(trim(linesOf(text)[last]))[3]]

\* C23: each node and each sub-resource of the parse has the properties of
\* the lines between its own declaration and the next section header, each
\* key with its last value, and no others: a property line under a header
\* that gives no entity is on no entity.
C23_PropertiesBelongToNearestHeader ==
    patch.op = "parse" =>
        LET nodesAt == completeDeclarations(content, "node")
            subAt == completeDeclarations(content, "sub_resource")
        IN  /\ Len(patched.nodes) = Len(nodesAt)
            /\ \A k \in 1..Len(nodesAt) :
                   patched.nodes[k].properties = propertiesAfter(content, nodesAt[k])
            /\ Len(patched.subResources) = Len(subAt)
            /\ \A k \in 1..Len(subAt) :
                   patched.subResources[k].properties = propertiesAfter(content, subAt[k])

\* A node with two lines for one key: the parse has the value of the second.
C23_Witness ==
    /\ patch.op = "parse"
    /\ content = join(<<nodeLine(<<"A">>), <<"k", " ", "=", " ", "1">>, <<"k", "=", "2">>>>, <<NL>>)
    /\ Len(patched.nodes) = 1
    /\ patched.nodes[1].properties = (<<"k">> :> <<"2">>)

\* A parsed scene without the nodes of the name and without the connections
\* from or to it.
withoutNode(scene, nodeName) ==
    [scene EXCEPT !.nodes = SelectSeq(scene.nodes, LAMBDA n : n.name # nodeName),
                  !.connections = SelectSeq(scene.connections,
                                            LAMBDA c : c.from # nodeName /\ c.to # nodeName)]

\* C24: the parse of removeNode(text, X) is the parse of the text without
\* the nodes named X and without the connections from or to X: the header,
\* the resources, the other nodes with their properties and the other
\* connections are the same.
C24_RemoveAgreesWithParse ==
    patch.op = "remove" =>
        parseSceneContent(patched) = withoutNode(parseSceneContent(content), patch.nodeName)

\* scene.nodes.find((n) => n.name === name)
findNode(scene, name) ==
    LET found == { i \in 1..Len(scene.nodes) : scene.nodes[i].name = name }
    IN  IF found = {} THEN Undefined
        ELSE <<TRUE, scene.nodes[CHOOSE i \in found : \A j \in found : i <= j]>>

\* node?.properties[property]
getNodeProperty(scene, nodeName, property) ==
    LET node == findNode(scene, nodeName)
    IN  IF node[1] /\ property \in DOMAIN node[2].properties
        THEN <<TRUE, node[2].properties[property]>>
        ELSE Undefined

\* The properties without the key.
otherProperties(properties, key) ==
    [k \in DOMAIN properties \ {key} |-> properties[k]]

\* C25: when the text has a node named n, the parse of
\* setProperty(text, n, k, v) gives v for the property k of n, and is the
\* parse of the text otherwise: the header, the resources, the connections,
\* the other nodes and the other keys of n are the same.
C25_SetPropertyIsReadBack ==
    (patch.op = "set" /\ hasNode(content, patch.nodeName)) =>
        LET before == parseSceneContent(content)
            after == parseSceneContent(patched)
        IN  /\ getNodeProperty(after, patch.nodeName, patch.property) = <<TRUE, patch.value>>
            /\ after.header = before.header
            /\ after.extResources = before.extResources
            /\ after.subResources = before.subResources
            /\ after.connections = before.connections
            /\ Len(after.nodes) = Len(before.nodes)
            /\ \A i \in 1..Len(before.nodes) :
                   IF before.nodes[i].name = patch.nodeName
                   THEN /\ [after.nodes[i] EXCEPT !.properties = NoProperties]
                               = [before.nodes[i] EXCEPT !.properties = NoProperties]
                        /\ otherProperties(after.nodes[i].properties, patch.property)
                               = otherProperties(before.nodes[i].properties, patch.property)
                   ELSE after.nodes[i] = before.nodes[i]

\* C26: for a path p of two segments or more, getSetting on the parse of
\* setSettingInContent(text, p, v) gives v for p and, for every other path,
\* what it gives on the parse of the text.
C26_SetSettingIsReadBack ==
    (patch.op = "set" /\ Len(split(patch.path, "/")) >= 2) =>
        LET before == parseProjectSettingsContent(content)
            after == parseProjectSettingsContent(patched)
        IN  /\ getSetting(after, patch.path) = <<TRUE, patch.value>>
            /\ \A q \in SettingPaths \ {patch.path} :
                   getSetting(after, q) = getSetting(before, q)

\* The name is that of no node of the text, a segment of no parent path and
\* of no connection endpoint.
isFresh(text, nodeName) ==
    \A i \in 1..Len(linesOf(text)) :
        LET line == linesOf(text)[i]
        IN  /\ ~(isNodeDeclaration(line) /\ matchAttr(trim(line), "name=") = <<TRUE, nodeName>>)
            /\ ~refersTo(line, nodeName)

\* C27: renaming a node to a name that is fresh in the text and then back
\* to its old name gives the text again.
C27_RenameIsReversible ==
    (patch.op = "rename" /\ isFresh(content, patch.newName)) =>
        renameNodeInContent(patched, patch.newName, patch.nodeName) = content

\* The two calls are for the same signal, source, target and method.
sameTuple(a, b) ==
    a.signal = b.signal /\ a.from = b.from /\ a.to = b.to /\ a.method = b.method

\* C28: a signals disconnect that succeeds right after a signals connect
\* that succeeded with the same signal, from, to and method leaves a file
\* that parses to the document the file had before the connect.
C28_ConnectThenDisconnectRestores ==
    [][ ( /\ lastCall.action = "connect" /\ ~lastCall.threw
          /\ lastCall'.action = "disconnect" /\ ~lastCall'.threw
          /\ sameTuple(lastCall.args, lastCall'.args) )
        => parseSceneContent(sceneOf(disk')) = parseSceneContent(lastCall.before) ]_vars

\* A disconnect has succeeded on a file that ended with the connection as
\* connect writes it, and other connections stayed.
C28_Witness ==
    /\ lastCall.action = "disconnect" /\ ~lastCall.threw
    /\ LET a == lastCall.args
           written == <<NL, NL, "[", "connection", " ">> \o attr("signal=", a.signal) \o <<" ">>
                         \o attr("from=", a.from) \o <<" ">> \o attr("to=", a.to) \o <<" ">>
                         \o attr("method=", a.method) \o <<"]", NL>>
       IN  /\ endsWith(lastCall.before, written)
           /\ ~includes(SubSeq(lastCall.before, 1, Len(lastCall.before) - Len(written)),
                        attr("from=", a.from) \o <<" ">> \o attr("to=", a.to))
    /\ Len(parseSceneContent(sceneOf(disk)).connections) > 0

\* The nodes of the text that are declared without a parent attribute.
rootsOf(text) ==
    LET nodes == parseSceneContent(text).nodes
    IN  { i \in 1..Len(nodes) : ~nodes[i].parent[1] }

\* C29: a successful nodes add on a scene with a single root leaves a scene
\* with a single root, and a node added with parent "." or with no parent
\* argument is parsed with the parent ".".
C29_AddKeepsSingleRoot ==
    ( /\ lastCall.action = "add" /\ ~lastCall.threw
      /\ Cardinality(rootsOf(lastCall.before)) = 1 ) =>
        LET nodes == parseSceneContent(sceneOf(disk)).nodes
            parent == IF Len(lastCall.args.parent) > 0 THEN lastCall.args.parent ELSE <<".">>
        IN  /\ Cardinality(rootsOf(sceneOf(disk))) = 1
            /\ parent = <<".">> =>
                   \A i \in 1..Len(nodes) :
                       (nodes[i].name = lastCall.args.name /\ i > Len(parseSceneContent(lastCall.before).nodes))
                           => nodes[i].parent = <<TRUE, <<".">>>>


====
